---- MODULE Spec2Model ----
(***************************************************************************)
(* A model of the resume pipeline: the embedded-data codec of              *)
(* pdf_resume_updater.py (extract_json_data, save_pdf), and the section    *)
(* classifier and the date formatting of pdf_renderer.py.                  *)
(*                                                                         *)
(* Bytes, UTF-16 code units and code points are integers.  A container     *)
(* (the PDF) is a sequence of bytes.  A JSON value is a tagged tuple:      *)
(*   <<"obj", <<k1, v1>>, ...>>   a dict, its pairs in insertion order     *)
(*   <<"arr", <<v1, ...>>>>       a list                                   *)
(*   <<"str", <<cp, ...>>>>       a string, as its code points             *)
(*   <<"int", <<n>>>>             an integer                               *)
(*   <<"true", <<>>>>, <<"false", <<>>>>, <<"null", <<>>>>                 *)
(* Python's None is the JSON null.                                         *)
(***************************************************************************)
EXTENDS Integers, Sequences, FiniteSets, TLC

(***************************************************************************)
(* Bounds of the model.                                                    *)
(***************************************************************************)
\* how many operations a behaviour of the codec performs
MaxOps == 3

\* how many documents of DocPool a caller may load
MaxDoc == 6

\* how many containers of FilePool the updater may be opened on
MaxFile == 18

\* the items of a section handed to the classifier
MaxItems == 2

\* the months of a date range lie in -MaxMonth..MaxMonth
MaxMonth == 14

\* the tokens a text handed to a text function is made of
MaxTokens == 3

\* the sections of RenderPool the documents are built from
MaxSection == 22

----------------------------------------------------------------------------
(***************************************************************************)
(* Sequences.                                                              *)
(***************************************************************************)
RECURSIVE Concat(_)
\* the concatenation of a sequence of sequences
Concat(ss) == IF ss = <<>> THEN <<>> ELSE Head(ss) \o Concat(Tail(ss))

\* s from index i to its end
From(s, i) == SubSeq(s, i, Len(s))

\* whether lit occurs in s at index p
LitAt(s, p, lit) ==
    /\ p >= 1
    /\ p + Len(lit) - 1 <= Len(s)
    /\ \A k \in 1..Len(lit) : s[p + k - 1] = lit[k]

\* the least element of a non-empty set of integers
Least(S) == CHOOSE x \in S : \A y \in S : x <= y

\* bytes.find: the first index >= from where lit occurs in s, 0 when none
Find(s, lit, from) ==
    LET hits == {p \in from..Len(s) : LitAt(s, p, lit)}
    IN  IF hits = {} THEN 0 ELSE Least(hits)

----------------------------------------------------------------------------
(***************************************************************************)
(* JSON values and Python truthiness.                                      *)
(***************************************************************************)
None == <<"null", <<>>>>

EmptyObj == <<"obj", <<>>>>

Str(cps) == <<"str", cps>>

Obj(pairs) == <<"obj", pairs>>

Arr(elems) == <<"arr", elems>>

Num(n) == <<"int", <<n>>>>

\* Python's bool(d): None, False, 0, "", [] and {} are falsy
Truthy(d) ==
    CASE d[1] = "null" -> FALSE
      [] d[1] = "false" -> FALSE
      [] d[1] = "true" -> TRUE
      [] d[1] = "int" -> d[2][1] # 0
      [] OTHER -> d[2] # <<>>

----------------------------------------------------------------------------
(***************************************************************************)
(* json.dumps(data, ensure_ascii=False): the text of a value, as code      *)
(* points.  Separators are ", " and ": "; a quote and a backslash are      *)
(* escaped, every other character (code points >= 32 here) is kept as is.  *)
(***************************************************************************)
RECURSIVE DecDigits(_)
\* the decimal digits of n >= 0
DecDigits(n) ==
    IF n < 10 THEN <<48 + n>> ELSE DecDigits(n \div 10) \o <<48 + (n % 10)>>

\* str(n) of an integer: a minus sign before the digits of a negative one
IntStr(n) == IF n < 0 THEN <<45>> \o DecDigits(0 - n) ELSE DecDigits(n)

\* a hex digit of '\\u{0:04x}'
HexDigitLower(n) == IF n < 10 THEN 48 + n ELSE 87 + n

\* one character of a string, escaped as json.dumps escapes it
EscapeChar(c) ==
    IF c = 34 THEN <<92, 34>>
    ELSE IF c = 92 THEN <<92, 92>>
    ELSE IF c = 10 THEN <<92, 110>>
    ELSE IF c = 13 THEN <<92, 114>>
    ELSE IF c = 9 THEN <<92, 116>>
    ELSE IF c = 8 THEN <<92, 98>>
    ELSE IF c = 12 THEN <<92, 102>>
    ELSE IF c < 32
    THEN <<92, 117, 48, 48, HexDigitLower(c \div 16), HexDigitLower(c % 16)>>
    ELSE <<c>>

\* a string between quotes
DumpsStr(cps) ==
    <<34>> \o Concat([k \in 1..Len(cps) |-> EscapeChar(cps[k])]) \o <<34>>

RECURSIVE Dumps(_)
\* json.dumps(d, ensure_ascii=False)
Dumps(d) ==
    CASE d[1] = "obj" ->
           <<123>>
           \o Concat([k \in 1..Len(d[2]) |->
                  (IF k > 1 THEN <<44, 32>> ELSE <<>>)
                  \o DumpsStr(d[2][k][1]) \o <<58, 32>> \o Dumps(d[2][k][2])])
           \o <<125>>
      [] d[1] = "arr" ->
           <<91>>
           \o Concat([k \in 1..Len(d[2]) |->
                  (IF k > 1 THEN <<44, 32>> ELSE <<>>) \o Dumps(d[2][k])])
           \o <<93>>
      [] d[1] = "str" -> DumpsStr(d[2])
      [] d[1] = "int" -> IntStr(d[2][1])
      [] d[1] = "true" -> <<116, 114, 117, 101>>
      [] d[1] = "false" -> <<102, 97, 108, 115, 101>>
      [] OTHER -> <<110, 117, 108, 108>>

----------------------------------------------------------------------------
(***************************************************************************)
(* str.encode('utf-16-be') and bytes.decode('utf-16-be').                  *)
(***************************************************************************)
\* the bytes of one code point: one unit, or a surrogate pair above U+FFFF
Utf16Char(cp) ==
    IF cp < 65536
    THEN <<cp \div 256, cp % 256>>
    ELSE LET v == cp - 65536
             hi == 55296 + (v \div 1024)
             lo == 56320 + (v % 1024)
         IN  <<hi \div 256, hi % 256, lo \div 256, lo % 256>>

\* json_str.encode('utf-16-be')
Utf16Encode(cps) == Concat([k \in 1..Len(cps) |-> Utf16Char(cps[k])])

IsHighSurrogate(u) == u >= 55296 /\ u <= 56319

IsLowSurrogate(u) == u >= 56320 /\ u <= 57343

RECURSIVE Utf16Units(_, _, _)
\* the code points of the units us from index i on, after acc; ok is FALSE
\* where Python raises UnicodeDecodeError (a surrogate without its partner)
Utf16Units(us, i, acc) ==
    IF i > Len(us) THEN [ok |-> TRUE, cps |-> acc]
    ELSE IF IsHighSurrogate(us[i])
    THEN IF i + 1 <= Len(us) /\ IsLowSurrogate(us[i + 1])
         THEN Utf16Units(us, i + 2,
                  Append(acc, 65536 + (us[i] - 55296) * 1024 + (us[i + 1] - 56320)))
         ELSE [ok |-> FALSE, cps |-> <<>>]
    ELSE IF IsLowSurrogate(us[i])
    THEN [ok |-> FALSE, cps |-> <<>>]
    ELSE Utf16Units(us, i + 1, Append(acc, us[i]))

\* bytes_data.decode('utf-16-be'): an odd number of bytes is truncated data
Utf16Decode(bs) ==
    IF Len(bs) % 2 = 1 THEN [ok |-> FALSE, cps |-> <<>>]
    ELSE Utf16Units([k \in 1..(Len(bs) \div 2) |-> bs[2 * k - 1] * 256 + bs[2 * k]],
                    1, <<>>)

----------------------------------------------------------------------------
(***************************************************************************)
(* Hex text.                                                               *)
(***************************************************************************)
\* the uppercase hex digit of a nibble, as an ASCII byte
HexDigitUpper(n) == IF n < 10 THEN 48 + n ELSE 55 + n

\* json_bytes.hex().upper()
HexUpper(bs) ==
    [k \in 1..(2 * Len(bs)) |->
        IF k % 2 = 1
        THEN HexDigitUpper(bs[(k + 1) \div 2] \div 16)
        ELSE HexDigitUpper(bs[k \div 2] % 16)]

\* the value of a hex digit byte (either case), 16 for any other byte
DigitValue(b) ==
    IF b >= 48 /\ b <= 57 THEN b - 48
    ELSE IF b >= 65 /\ b <= 70 THEN b - 55
    ELSE IF b >= 97 /\ b <= 102 THEN b - 87
    ELSE 16

IsHexDigit(b) == DigitValue(b) < 16

\* a variant of JoinPairs that joins the chunks with two spaces
JoinPairsDouble(h) ==
    LET n == (Len(h) + 1) \div 2
    IN  [k \in 1..(IF n = 0 THEN 0 ELSE Len(h) + 2 * (n - 1)) |->
            IF (k - 1) % 4 >= 2 THEN 32
            ELSE h[2 * ((k - 1) \div 4) + ((k - 1) % 4) + 1]]

\* ' '.join(hex_data[i:i+2] for i in range(0, len(hex_data), 2)): the
\* chunks of two characters (the last of one, when the length is odd), a
\* space between two chunks
JoinPairs(h) ==
    LET n == (Len(h) + 1) \div 2
    IN  [k \in 1..(IF n = 0 THEN 0 ELSE Len(h) + (n - 1)) |->
            IF (k - 1) % 3 = 2 THEN 32
            ELSE h[2 * ((k - 1) \div 3) + ((k - 1) % 3) + 1]]

\* the name token /ecv-data
NameToken == <<47, 101, 99, 118, 45, 100, 97, 116, 97>>

\* the BOM digits FEFF
BomDigits == <<70, 69, 70, 70>>

\* hex_formatted of save_pdf: 'FEFF' + hex, in pairs
HexFormatted(d) == JoinPairs(BomDigits \o HexUpper(Utf16Encode(Dumps(d))))

\* replacement of save_pdf: '/ecv-data <' + hex_formatted + '>'
Replacement(d) == NameToken \o <<32, 60>> \o HexFormatted(d) \o <<62>>

----------------------------------------------------------------------------
(***************************************************************************)
(* json.loads: a recursive-descent parser of the JSON grammar over code    *)
(* points.  Covered: objects, arrays, strings with their escapes,          *)
(* integers, true, false, null, and whitespace between tokens.  A result   *)
(* is [ok, val, pos]: pos is the index after the value.                    *)
(***************************************************************************)
ParseFail == [ok |-> FALSE, val |-> None, pos |-> 0]

ParseOk(v, p) == [ok |-> TRUE, val |-> v, pos |-> p]

IsJsonWs(c) == c \in {32, 9, 10, 13}

RECURSIVE SkipJsonWs(_, _)
\* the first index >= i of t that holds no JSON whitespace
SkipJsonWs(t, i) ==
    IF i <= Len(t) /\ IsJsonWs(t[i]) THEN SkipJsonWs(t, i + 1) ELSE i

\* whether four hex digits stand at index i after the two characters \u
IsUnicodeEscape(t, i) ==
    /\ LitAt(t, i, <<92, 117>>)
    /\ i + 5 <= Len(t)
    /\ \A k \in (i + 2)..(i + 5) : IsHexDigit(t[k])

\* the code unit those four digits name
EscapedUnit(t, i) ==
    4096 * DigitValue(t[i + 2]) + 256 * DigitValue(t[i + 3])
    + 16 * DigitValue(t[i + 4]) + DigitValue(t[i + 5])

\* the character a one-letter escape names, 0 for no escape
EscapedChar(c) ==
    CASE c \in {34, 92, 47} -> c
      [] c = 110 -> 10
      [] c = 114 -> 13
      [] c = 116 -> 9
      [] c = 98 -> 8
      [] c = 102 -> 12
      [] OTHER -> 0

RECURSIVE ScanString(_, _, _)
\* the string whose opening quote is before index i, its characters so far acc
ScanString(t, i, acc) ==
    IF i > Len(t) THEN ParseFail
    ELSE IF t[i] = 34 THEN ParseOk(Str(acc), i + 1)
    ELSE IF t[i] = 92
    THEN IF i + 1 <= Len(t) /\ EscapedChar(t[i + 1]) # 0
         THEN ScanString(t, i + 2, Append(acc, EscapedChar(t[i + 1])))
         ELSE IF ~IsUnicodeEscape(t, i) THEN ParseFail
         ELSE IF /\ IsHighSurrogate(EscapedUnit(t, i))
                 /\ IsUnicodeEscape(t, i + 6)
                 /\ IsLowSurrogate(EscapedUnit(t, i + 6))
         THEN ScanString(t, i + 12,
                  Append(acc, 65536 + 1024 * (EscapedUnit(t, i) - 55296)
                              + (EscapedUnit(t, i + 6) - 56320)))
         ELSE ScanString(t, i + 6, Append(acc, EscapedUnit(t, i)))
    ELSE IF t[i] < 32 THEN ParseFail
    ELSE ScanString(t, i + 1, Append(acc, t[i]))

RECURSIVE ScanDigits(_, _, _)
\* the integer whose digits start before index i, its value so far n
ScanDigits(t, i, n) ==
    IF i <= Len(t) /\ t[i] >= 48 /\ t[i] <= 57
    THEN ScanDigits(t, i + 1, 10 * n + (t[i] - 48))
    ELSE ParseOk(Num(n), i)

\* the integer at index i: 0, or digits that start with 1..9
ScanNumber(t, i) ==
    IF i > Len(t) THEN ParseFail
    ELSE IF t[i] = 48 THEN ParseOk(Num(0), i + 1)
    ELSE IF t[i] >= 49 /\ t[i] <= 57 THEN ScanDigits(t, i, 0)
    ELSE ParseFail

\* the integer after a minus sign at index i - 1
ScanNegative(t, i) ==
    LET r == ScanNumber(t, i)
    IN  IF r.ok THEN ParseOk(Num(0 - r.val[2][1]), r.pos) ELSE ParseFail

\* pairs with key k bound to v: a repeated key keeps its place and takes the
\* later value, as a Python dict does
DictPut(pairs, k, v) ==
    IF \E n \in 1..Len(pairs) : pairs[n][1] = k
    THEN [n \in 1..Len(pairs) |-> IF pairs[n][1] = k THEN <<k, v>> ELSE pairs[n]]
    ELSE Append(pairs, <<k, v>>)

RECURSIVE ParseValue(_, _), ParseMembers(_, _, _), ParseElements(_, _, _)
\* the members of an object from index i (at a key's opening quote) on
ParseMembers(t, i, pairs) ==
    IF ~(i <= Len(t) /\ t[i] = 34) THEN ParseFail
    ELSE LET key == ScanString(t, i + 1, <<>>)
         IN  IF ~key.ok THEN ParseFail
             ELSE LET c == SkipJsonWs(t, key.pos)
                  IN  IF ~(c <= Len(t) /\ t[c] = 58) THEN ParseFail
                      ELSE LET v == ParseValue(t, SkipJsonWs(t, c + 1))
                           IN  IF ~v.ok THEN ParseFail
                               ELSE LET e == SkipJsonWs(t, v.pos)
                                        got == DictPut(pairs, key.val[2], v.val)
                                    IN  IF e > Len(t) THEN ParseFail
                                        ELSE IF t[e] = 125 THEN ParseOk(Obj(got), e + 1)
                                        ELSE IF t[e] = 44
                                        THEN ParseMembers(t, SkipJsonWs(t, e + 1), got)
                                        ELSE ParseFail

\* the elements of an array from index i (at a value) on
ParseElements(t, i, elems) ==
    LET v == ParseValue(t, i)
    IN  IF ~v.ok THEN ParseFail
        ELSE LET e == SkipJsonWs(t, v.pos)
                 got == Append(elems, v.val)
             IN  IF e > Len(t) THEN ParseFail
                 ELSE IF t[e] = 93 THEN ParseOk(Arr(got), e + 1)
                 ELSE IF t[e] = 44 THEN ParseElements(t, SkipJsonWs(t, e + 1), got)
                 ELSE ParseFail

\* the value that starts at index i
ParseValue(t, i) ==
    IF i > Len(t) THEN ParseFail
    ELSE IF t[i] = 123
    THEN LET k == SkipJsonWs(t, i + 1)
         IN  IF k <= Len(t) /\ t[k] = 125 THEN ParseOk(EmptyObj, k + 1)
             ELSE ParseMembers(t, k, <<>>)
    ELSE IF t[i] = 91
    THEN LET k == SkipJsonWs(t, i + 1)
         IN  IF k <= Len(t) /\ t[k] = 93 THEN ParseOk(Arr(<<>>), k + 1)
             ELSE ParseElements(t, k, <<>>)
    ELSE IF t[i] = 34 THEN ScanString(t, i + 1, <<>>)
    ELSE IF t[i] >= 48 /\ t[i] <= 57 THEN ScanNumber(t, i)
    ELSE IF t[i] = 45 THEN ScanNegative(t, i + 1)
    ELSE IF LitAt(t, i, <<110, 117, 108, 108>>) THEN ParseOk(None, i + 4)
    ELSE IF LitAt(t, i, <<116, 114, 117, 101>>) THEN ParseOk(<<"true", <<>>>>, i + 4)
    ELSE IF LitAt(t, i, <<102, 97, 108, 115, 101>>) THEN ParseOk(<<"false", <<>>>>, i + 5)
    ELSE ParseFail

\* json.loads(t): one value, whitespace around it, nothing else
Loads(t) ==
    LET v == ParseValue(t, SkipJsonWs(t, 1))
    IN  IF v.ok /\ SkipJsonWs(t, v.pos) = Len(t) + 1 THEN v ELSE ParseFail

----------------------------------------------------------------------------
(***************************************************************************)
(* bytes.fromhex.                                                          *)
(***************************************************************************)
\* Py_ISSPACE, and \s of a bytes pattern: space, \t, \n, \r, \v, \f
IsSpace(b) == b \in {32, 9, 10, 13, 11, 12}

\* the first index >= i of s that holds no whitespace, Len(s) + 1 when none
SkipSpace(s, i) ==
    CHOOSE j \in i..(Len(s) + 1) :
        /\ j = Len(s) + 1 \/ ~IsSpace(s[j])
        /\ \A m \in i..(j - 1) : IsSpace(s[m])

\* bytes.fromhex(s); ok is FALSE where Python raises ValueError.  Whitespace
\* is skipped before a byte only, then the two digits of the byte are read
\* from adjacent places: so every other character must be a hex digit, and
\* the digits pair up, each pair adjacent.  at is the places of the digits.
FromHex(s) ==
    LET at == SelectSeq([k \in 1..Len(s) |-> k], LAMBDA k : ~IsSpace(s[k]))
        n == Len(at)
    IN  IF /\ \A k \in 1..n : IsHexDigit(s[at[k]])
           /\ n % 2 = 0
           /\ \A k \in 1..(n \div 2) : at[2 * k] = at[2 * k - 1] + 1
        THEN [ok |-> TRUE,
              bytes |-> [k \in 1..(n \div 2) |->
                  16 * DigitValue(s[at[2 * k - 1]]) + DigitValue(s[at[2 * k]])]]
        ELSE [ok |-> FALSE, bytes |-> <<>>]

----------------------------------------------------------------------------
(***************************************************************************)
(* The field patterns, as re matches them on bytes.  A match is            *)
(* [ok, start, end, gs, ge]: the span start..end of the whole match and    *)
(* the span gs..ge of group 1.  Every quantifier of these patterns is      *)
(* followed by a byte it cannot itself match, so the greedy match is the   *)
(* only one, except the \s*([^>]+) of pattern 3, which gives a byte back.  *)
(*   1   /ecv-data\s*<FEFF([^>]+)>                                         *)
(*   2   /ecv-data\s*<FE\s*FF([^>]+)>                                      *)
(*   3   /ecv-data\s*<FE\s*FF\s*([^>]+)>                                   *)
(* save_pdf uses 1 and 2 without the group.                                *)
(***************************************************************************)
NoMatch == [ok |-> FALSE, start |-> 0, end |-> 0, gs |-> 0, ge |-> 0]

\* the first index >= i of c that holds '>', Len(c) + 1 when none
SkipNotGt(c, i) ==
    CHOOSE j \in i..(Len(c) + 1) :
        /\ j = Len(c) + 1 \/ c[j] = 62
        /\ \A m \in i..(j - 1) : c[m] # 62

\* ([^>]+)> at index i, for a match that starts at p
GroupThenGt(c, p, i) ==
    LET j == SkipNotGt(c, i)
    IN  IF j > i /\ j <= Len(c)
        THEN [ok |-> TRUE, start |-> p, end |-> j, gs |-> i, ge |-> j - 1]
        ELSE NoMatch

\* \s*([^>]+)> at index i: the whitespace is taken greedily, and its last
\* byte is given back to the group when nothing else is left before '>'
SpaceGroupThenGt(c, p, i) ==
    LET e == SkipSpace(c, i)
        j == SkipNotGt(c, e)
    IN  IF j > Len(c) THEN NoMatch
        ELSE IF j > e
        THEN [ok |-> TRUE, start |-> p, end |-> j, gs |-> e, ge |-> j - 1]
        ELSE IF e > i
        THEN [ok |-> TRUE, start |-> p, end |-> j, gs |-> e - 1, ge |-> e - 1]
        ELSE NoMatch

\* pattern k matched at index p of c
MatchAt(k, c, p) ==
    IF ~LitAt(c, p, NameToken) THEN NoMatch
    ELSE LET a == SkipSpace(c, p + Len(NameToken))
         IN  IF k = 1
             THEN IF LitAt(c, a, <<60>> \o BomDigits)
                  THEN GroupThenGt(c, p, a + 5)
                  ELSE NoMatch
             ELSE IF ~LitAt(c, a, <<60, 70, 69>>) THEN NoMatch
             ELSE LET b == SkipSpace(c, a + 3)
                  IN  IF ~LitAt(c, b, <<70, 70>>) THEN NoMatch
                      ELSE IF k = 2 THEN GroupThenGt(c, p, b + 2)
                      ELSE SpaceGroupThenGt(c, p, b + 2)

\* re.search(pattern k, c) from index i on: the leftmost match
Search(k, c, i) ==
    LET hits == {p \in i..Len(c) : MatchAt(k, c, p).ok}
    IN  IF hits = {} THEN NoMatch ELSE MatchAt(k, c, Least(hits))

RECURSIVE SubFrom(_, _, _, _)
\* c from index i on with every match of pattern k replaced by repl
SubFrom(k, c, repl, i) ==
    LET m == Search(k, c, i)
    IN  IF ~m.ok THEN From(c, i)
        ELSE SubSeq(c, i, m.start - 1) \o repl \o SubFrom(k, c, repl, m.end + 1)

\* re.sub(pattern k, repl, c): every non-overlapping match, left to right
ReSub(k, c, repl) == SubFrom(k, c, repl, 1)

----------------------------------------------------------------------------
(***************************************************************************)
(* Exceptions.  An exception is its class and its message, the message as  *)
(* the chain of its parts: an outer handler that re-raises puts its own    *)
(* text before the text of the exception it caught.                        *)
(***************************************************************************)
NoExc == [type |-> "none", msg |-> <<>>]

Raise(t, m) == [type |-> t, msg |-> m]

(***************************************************************************)
(* extract_json_data, on the content c of the file: the exception it ends  *)
(* with and the document it loads.                                         *)
(***************************************************************************)
NotStripped(b) == b \notin {32, 10, 13}

IsAscii(b) == b < 128

\* a variant of HexClean that removes the spaces alone
HexCleanSpaces(h) == SelectSeq(h, LAMBDA b : b # 32)

\* hex_data.replace(b' ', b'').replace(b'\n', b'').replace(b'\r', b'')
HexClean(h) == SelectSeq(h, NotStripped)

\* hex_clean.decode('ascii', errors='ignore'): bytes above 127 are dropped
HexStr(h) == SelectSeq(h, IsAscii)

\* the first of the three patterns that matches, in the order of the list
FirstMatch(c) ==
    IF Search(1, c, 1).ok THEN Search(1, c, 1)
    ELSE IF Search(2, c, 1).ok THEN Search(2, c, 1)
    ELSE Search(3, c, 1)

ExtractFirst == <<"Error extracting data from PDF">>

\* a variant of DecodeField that reports a failure of fromhex with the text
\* of the missing field
DecodeFieldAsMissing(hex_data) ==
    LET b == FromHex(HexStr(HexClean(hex_data)))
        u == Utf16Decode(b.bytes)
        j == Loads(u.cps)
    IN  IF ~b.ok
        THEN [exc |-> Raise("RuntimeError", ExtractFirst
                          \o <<"Could not find /ecv-data field in PDF">>),
              doc |-> None]
        ELSE IF ~u.ok
        THEN [exc |-> Raise("RuntimeError", ExtractFirst
                          \o <<"Failed to decode JSON data", "UnicodeDecodeError">>),
              doc |-> None]
        ELSE IF ~j.ok
        THEN [exc |-> Raise("RuntimeError", ExtractFirst
                          \o <<"Failed to decode JSON data", "JSONDecodeError">>),
              doc |-> None]
        ELSE [exc |-> NoExc, doc |-> j.val]

\* lines 54-72: the decode of the matched hex text.  A ValueError of fromhex
\* is none of the classes the inner handler names, so the outer handler
\* alone wraps it; a UnicodeDecodeError or JSONDecodeError is wrapped twice.
DecodeField(hex_data) ==
    LET b == FromHex(HexStr(HexClean(hex_data)))
        u == Utf16Decode(b.bytes)
        j == Loads(u.cps)
    IN  IF ~b.ok
        THEN [exc |-> Raise("RuntimeError", ExtractFirst
                          \o <<"non-hexadecimal number found in fromhex() arg">>),
              doc |-> None]
        ELSE IF ~u.ok
        THEN [exc |-> Raise("RuntimeError", ExtractFirst
                          \o <<"Failed to decode JSON data", "UnicodeDecodeError">>),
              doc |-> None]
        ELSE IF ~j.ok
        THEN [exc |-> Raise("RuntimeError", ExtractFirst
                          \o <<"Failed to decode JSON data", "JSONDecodeError">>),
              doc |-> None]
        ELSE [exc |-> NoExc, doc |-> j.val]

ExtractJson(c) ==
    LET m == FirstMatch(c)
    IN  IF ~m.ok
        THEN [exc |-> Raise("RuntimeError", ExtractFirst
                          \o <<"Could not find /ecv-data field in PDF">>),
              doc |-> None]
        ELSE DecodeField(SubSeq(c, m.gs, m.ge))

(***************************************************************************)
(* save_pdf, on the content c of the file and the loaded document d: the   *)
(* exception it ends with and the content it writes.                       *)
(***************************************************************************)
\* a variant of ManualReplace that keeps the '>' that ends the old field
ManualReplaceKeepGt(c, repl) ==
    LET pos == Find(c, NameToken, 1)
        end_pos == Find(c, <<62>>, pos)
    IN  IF pos = 0
        THEN [exc |-> Raise("RuntimeError", <<"Error saving PDF">>
                          \o <<"Could not find /ecv-data field in PDF">>),
              content |-> <<>>]
        ELSE IF end_pos = 0
        THEN [exc |-> Raise("RuntimeError", <<"Error saving PDF">>
                          \o <<"Could not find end of /ecv-data field">>),
              content |-> <<>>]
        ELSE [exc |-> NoExc,
              content |-> SubSeq(c, 1, pos - 1) \o repl \o From(c, end_pos)]

\* the else branch of the pattern loop: the span from the name token
\* through the first '>' after it
ManualReplace(c, repl) ==
    LET pos == Find(c, NameToken, 1)
        end_pos == Find(c, <<62>>, pos)
    IN  IF pos = 0
        THEN [exc |-> Raise("RuntimeError", <<"Error saving PDF">>
                          \o <<"Could not find /ecv-data field in PDF">>),
              content |-> <<>>]
        ELSE IF end_pos = 0
        THEN [exc |-> Raise("RuntimeError", <<"Error saving PDF">>
                          \o <<"Could not find end of /ecv-data field">>),
              content |-> <<>>]
        ELSE [exc |-> NoExc,
              content |-> SubSeq(c, 1, pos - 1) \o repl \o From(c, end_pos + 1)]

\* new_content: the first pattern that is found is substituted, every match
NewContent(c, repl) ==
    IF Search(1, c, 1).ok THEN [exc |-> NoExc, content |-> ReSub(1, c, repl)]
    ELSE IF Search(2, c, 1).ok THEN [exc |-> NoExc, content |-> ReSub(2, c, repl)]
    ELSE ManualReplace(c, repl)

SavePdf(c, d) ==
    IF ~Truthy(d)
    THEN [exc |-> Raise("ValueError",
                      <<"No data to save. Extract or update data first.">>),
          content |-> <<>>]
    ELSE NewContent(c, Replacement(d))

----------------------------------------------------------------------------
(***************************************************************************)
(* The documents a caller loads, and the containers an updater is opened   *)
(* on.                                                                     *)
(***************************************************************************)
\* {"a": "e-acute"}: non-ASCII text
DocAccent == Obj(<< <<<<97>>, Str(<<233>>)>> >>)

\* {"s": [{"x": 1}]}: a section list, an item, a field the schema lacks
DocNested == Obj(<< <<<<115>>, Arr(<< Obj(<< <<<<120>>, Num(1)>> >>) >>)>> >>)

\* {"a": "\"<U+1F600>"}: an escaped quote and a character above U+FFFF
DocAstral == Obj(<< <<<<97>>, Str(<<34, 128512>>)>> >>)

\* {"a": {}, "b": [true, null]}
DocMixed ==
    Obj(<< <<<<97>>, EmptyObj>>,
           <<<<98>>, Arr(<< <<"true", <<>>>>, None >>)>> >>)

\* {"b": "a\\"}
DocSlash == Obj(<< <<<<98>>, Str(<<97, 92>>)>> >>)

\* the documents: the empty document {} is the third, the empty list the sixth
DocPool ==
    << DocAccent, DocNested, EmptyObj, DocAstral, DocMixed, Arr(<<>>), DocSlash >>

Docs == 1..(IF MaxDoc < Len(DocPool) THEN MaxDoc ELSE Len(DocPool))

\* the payload digits of a document, without spaces
Payload(d) == HexUpper(Utf16Encode(Dumps(d)))

\* a field written without whitespace:   /ecv-data <FEFF007B...>
FieldCompact(d) == NameToken \o <<32, 60>> \o BomDigits \o Payload(d) \o <<62>>

\* a field with the BOM set apart:   /ecv-data <FE FF 007B...>
FieldBomApart(d) ==
    NameToken \o <<32, 60, 70, 69, 32, 70, 70, 32>> \o Payload(d) \o <<62>>

\* a field with the text h between the brackets
FieldOf(h) == NameToken \o <<32, 60>> \o h \o <<62>>

\* the bytes around the field:  "<< "  and  " >>\n"  and  " /x <41> "
Before == <<60, 60, 32>>

After == <<32, 62, 62, 10>>

Between == <<32, 47, 120, 32, 60, 52, 49, 62, 32>>

\* the digits of {} : 00 7B 00 7D
BraceDigits == <<48, 48, 55, 66, 48, 48, 55, 68>>

FilePool ==
    << \* 1-3: one field, in each of the three styles
       Before \o FieldCompact(DocAccent) \o After,
       Before \o FieldBomApart(DocNested) \o After,
       Before \o Replacement(DocAstral) \o After,
       \* 4: one compact field that holds the empty document
       Before \o FieldCompact(EmptyObj) \o After,
       \* 5: two compact fields
       Before \o FieldCompact(DocAccent) \o Between \o FieldCompact(DocNested) \o After,
       \* 6: whitespace before the BOM digits
       Before \o FieldOf(<<32>> \o BomDigits \o BraceDigits) \o After,
       \* 7: whitespace inside the BOM digits (F EFF)
       Before \o FieldOf(<<70, 32, 69, 70, 70>> \o BraceDigits) \o After,
       \* 8: a tab inside a byte pair of the payload
       Before \o FieldOf(BomDigits \o <<48, 9, 48, 55, 66, 48, 48, 55, 68>>) \o After,
       \* 9: a byte above 127 between the pairs 00 7B and 00 7D
       Before \o FieldOf(BomDigits \o <<48, 48, 55, 66, 128, 48, 48, 55, 68>>) \o After,
       \* 10: an odd number of hex digits
       Before \o FieldOf(BomDigits \o <<48, 48, 55, 66, 48>>) \o After,
       \* 11: an odd number of bytes: 00 7B 00
       Before \o FieldOf(BomDigits \o <<48, 48, 55, 66, 48, 48>>) \o After,
       \* 12: the text { alone, which is no JSON
       Before \o FieldOf(BomDigits \o <<48, 48, 55, 66>>) \o After,
       \* 13: no field at all
       Before \o After,
       \* 14: the name token with no '>' after it
       Before \o NameToken \o <<32, 40, 97>>,
       \* 15: a field that does not start with the BOM:  /ecv-data <0061>
       Before \o FieldOf(<<48, 48, 54, 49>>) \o After,
       \* 16: a newline before '<', a tab between two pairs, a space, a line
       \*     feed and a carriage return inside pairs, lowercase digits:
       \*     \n<FEFF\t0 07b\n0\r0\t7\nd>
       Before \o NameToken
           \o <<10, 60, 70, 69, 70, 70, 9, 48, 32, 48, 55, 98, 10, 48, 13, 48, 9,
                55, 10, 100, 62>>
           \o After,
       \* 17: a field in the second style before a compact one
       Before \o FieldBomApart(DocNested) \o Between \o FieldCompact(DocAccent) \o After,
       \* 18: a letter that is no hex digit (G) among the digits
       Before \o FieldOf(BomDigits \o <<48, 48, 55, 66, 71, 48, 48, 55, 68>>) \o After,
       \* 19: the BOM in lowercase digits:  /ecv-data <feff007B007D>
       Before \o FieldOf(<<102, 101, 102, 102>> \o BraceDigits) \o After
    >>

Files == 1..(IF MaxFile < Len(FilePool) THEN MaxFile ELSE Len(FilePool))

----------------------------------------------------------------------------
(***************************************************************************)
(* Dictionaries.  'k in d' and d.get(k, default) on an object value; a     *)
(* key is a sequence of code points.                                       *)
(***************************************************************************)
Has(d, k) == \E n \in 1..Len(d[2]) : d[2][n][1] = k

Get(d, k, default) ==
    IF Has(d, k)
    THEN d[2][CHOOSE n \in 1..Len(d[2]) : d[2][n][1] = k][2]
    ELSE default

\* isinstance(v, list)
IsList(v) == v[1] = "arr"

(***************************************************************************)
(* str(v) and str.strip().  The text of a list or a dictionary is its      *)
(* repr: the elements between brackets, strings between single quotes.     *)
(***************************************************************************)
RECURSIVE Repr(_)
Repr(v) ==
    LET RECURSIVE Elems(_, _)
        Elems(xs, n) ==
            IF n > Len(xs) THEN <<>>
            ELSE (IF n > 1 THEN <<44, 32>> ELSE <<>>)
                 \o Repr(xs[n]) \o Elems(xs, n + 1)
        RECURSIVE Pairs(_, _)
        Pairs(ps, n) ==
            IF n > Len(ps) THEN <<>>
            ELSE (IF n > 1 THEN <<44, 32>> ELSE <<>>)
                 \o <<39>> \o ps[n][1] \o <<39, 58, 32>> \o Repr(ps[n][2])
                 \o Pairs(ps, n + 1)
    IN  CASE v[1] = "str" -> <<39>> \o v[2] \o <<39>>
          [] v[1] = "int" -> IntStr(v[2][1])
          [] v[1] = "true" -> <<84, 114, 117, 101>>
          [] v[1] = "false" -> <<70, 97, 108, 115, 101>>
          [] v[1] = "null" -> <<78, 111, 110, 101>>
          [] v[1] = "arr" -> <<91>> \o Elems(v[2], 1) \o <<93>>
          [] v[1] = "obj" -> <<123>> \o Pairs(v[2], 1) \o <<125>>

PyStr(v) == IF v[1] = "str" THEN v[2] ELSE Repr(v)

\* the characters str.strip() removes
IsPyWhite(c) ==
    \/ c \in 9..13
    \/ c \in 28..32
    \/ c \in {133, 160, 5760, 8232, 8233, 8239, 8287, 12288}
    \/ c \in 8192..8202

Strip(t) ==
    LET kept == {n \in 1..Len(t) : ~IsPyWhite(t[n])}
    IN  IF kept = {} THEN <<>>
        ELSE SubSeq(t, CHOOSE n \in kept : \A m \in kept : n <= m,
                       CHOOSE n \in kept : \A m \in kept : m <= n)

(***************************************************************************)
(* The keys and the type tags of a section, as code points.                *)
(***************************************************************************)
\* "__t"
KeyT == <<95, 95, 116>>

\* "items"
KeyItems == <<105, 116, 101, 109, 115>>

\* "text"
KeyText == <<116, 101, 120, 116>>

\* "position"
KeyPosition == <<112, 111, 115, 105, 116, 105, 111, 110>>

\* "title"
KeyTitle == <<116, 105, 116, 108, 101>>

\* "workplace"
KeyWorkplace == <<119, 111, 114, 107, 112, 108, 97, 99, 101>>

\* "company"
KeyCompany == <<99, 111, 109, 112, 97, 110, 121>>

\* "tags"
KeyTags == <<116, 97, 103, 115>>

\* "name"
KeyName == <<110, 97, 109, 101>>

\* "projectName"
KeyProjectName == <<112, 114, 111, 106, 101, 99, 116, 78, 97, 109, 101>>

\* "description"
KeyDescription == <<100, 101, 115, 99, 114, 105, 112, 116, 105, 111, 110>>

\* "bullets"
KeyBullets == <<98, 117, 108, 108, 101, 116, 115>>

\* "SummarySection"
SummarySection == Str(<<83, 117, 109, 109, 97, 114, 121, 83, 101, 99, 116, 105, 111, 110>>)

\* "ExperienceSection"
ExperienceSection == Str(<<69, 120, 112, 101, 114, 105, 101, 110, 99, 101, 83, 101, 99, 116, 105, 111, 110>>)

\* "EducationSection"
EducationSection == Str(<<69, 100, 117, 99, 97, 116, 105, 111, 110, 83, 101, 99, 116, 105, 111, 110>>)

\* "TechnologySection"
TechnologySection == Str(<<84, 101, 99, 104, 110, 111, 108, 111, 103, 121, 83, 101, 99, 116, 105, 111, 110>>)

\* "ActivitySection"
ActivitySection == Str(<<65, 99, 116, 105, 118, 105, 116, 121, 83, 101, 99, 116, 105, 111, 110>>)

\* "ProjectSection"
ProjectSection == Str(<<80, 114, 111, 106, 101, 99, 116, 83, 101, 99, 116, 105, 111, 110>>)

\* "LanguageSection"
LanguageSection == Str(<<76, 97, 110, 103, 117, 97, 103, 101, 83, 101, 99, 116, 105, 111, 110>>)

\* "CertificateSection"
CertificateSection == Str(<<67, 101, 114, 116, 105, 102, 105, 99, 97, 116, 101, 83, 101, 99, 116, 105, 111, 110>>)

\* "Other"
OtherType == Str(<<79, 116, 104, 101, 114>>)

(***************************************************************************)
(* The shape of a section's items, and the type a section resolves to.     *)
(***************************************************************************)
\* section.get('items', [])
ItemsOf(sec) == Get(sec, KeyItems, Arr(<<>>))[2]

SectionHasSummaryItems(sec) ==
    \E n \in 1..Len(ItemsOf(sec)) :
        LET item == ItemsOf(sec)[n]
        IN  /\ Get(item, KeyText, None) # None
            /\ Strip(PyStr(Get(item, KeyText, Str(<<>>)))) # <<>>

SectionHasExperienceItems(sec) ==
    \E n \in 1..Len(ItemsOf(sec)) :
        LET item == ItemsOf(sec)[n]
            has_role == Has(item, KeyPosition) \/ Has(item, KeyTitle)
            has_company == Has(item, KeyWorkplace) \/ Has(item, KeyCompany)
        IN  (has_role \/ has_company) /\ IsList(Get(sec, KeyItems, None))

SectionHasProjectItems(sec) ==
    \E n \in 1..Len(ItemsOf(sec)) :
        LET item == ItemsOf(sec)[n]
            has_title ==
                \E k \in {KeyTitle, KeyName, KeyProjectName} :
                    Truthy(Get(item, k, None))
            has_content ==
                \E k \in {KeyDescription, KeyText, KeyBullets} :
                    Get(item, k, None) # None
        IN  has_title \/ has_content

SectionHasSkillItems(sec) ==
    \E n \in 1..Len(ItemsOf(sec)) :
        LET item == ItemsOf(sec)[n]
        IN  Has(item, KeyTags) /\ IsList(Get(item, KeyTags, None))

\* the tags _resolve_section_type returns unchanged
Known ==
    {SummarySection, ExperienceSection, EducationSection, TechnologySection,
     ActivitySection, ProjectSection, LanguageSection, CertificateSection}

\* the resolver with the skill shape tried before the experience shape
ResolveSkillsFirst(sec) ==
    LET section_type == Get(sec, KeyT, Str(<<>>))
    IN  IF section_type \in Known THEN section_type
        ELSE IF SectionHasSummaryItems(sec) THEN SummarySection
        ELSE IF SectionHasSkillItems(sec) THEN TechnologySection
        ELSE IF SectionHasExperienceItems(sec) THEN ExperienceSection
        ELSE IF SectionHasProjectItems(sec) THEN ProjectSection
        ELSE IF Truthy(section_type) THEN section_type ELSE OtherType

ResolveSectionType(sec) ==
    LET section_type == Get(sec, KeyT, Str(<<>>))
    IN  IF section_type \in Known THEN section_type
        ELSE IF SectionHasSummaryItems(sec) THEN SummarySection
        ELSE IF SectionHasExperienceItems(sec) THEN ExperienceSection
        ELSE IF SectionHasSkillItems(sec) THEN TechnologySection
        ELSE IF SectionHasProjectItems(sec) THEN ProjectSection
        ELSE IF Truthy(section_type) THEN section_type ELSE OtherType

(***************************************************************************)
(* format_date_range.  A result is [exc, text]: the exception the call     *)
(* ended with, "none" when it returned, and the text it returned.          *)
(***************************************************************************)
\* "fromMonth"
KeyFromMonth == <<102, 114, 111, 109, 77, 111, 110, 116, 104>>

\* "fromYear"
KeyFromYear == <<102, 114, 111, 109, 89, 101, 97, 114>>

\* "toMonth"
KeyToMonth == <<116, 111, 77, 111, 110, 116, 104>>

\* "toYear"
KeyToYear == <<116, 111, 89, 101, 97, 114>>

\* "isOngoing"
KeyIsOngoing == <<105, 115, 79, 110, 103, 111, 105, 110, 103>>

PyTrue == <<"true", <<>>>>

PyFalse == <<"false", <<>>>>

\* "Present"
PresentText == <<80, 114, 101, 115, 101, 110, 116>>

\* the table: '' and then '01' to '12'
Months ==
    <<  <<>>, <<48, 49>>, <<48, 50>>, <<48, 51>>, <<48, 52>>, <<48, 53>>,
        <<48, 54>>, <<48, 55>>, <<48, 56>>, <<48, 57>>, <<49, 48>>,
        <<49, 49>>, <<49, 50>>  >>

\* str.zfill(w): zeros on the left, after a sign
ZFill(t, w) ==
    LET zeros == [n \in 1..(w - Len(t)) |-> 48]
    IN  IF Len(t) >= w THEN t
        ELSE IF t # <<>> /\ t[1] \in {43, 45}
             THEN <<t[1]>> \o zeros \o Tail(t)
        ELSE zeros \o t

Returned(t) == [exc |-> "none", text |-> t]

Failed(e) == [exc |-> e, text |-> <<>>]

\* the variant that writes a month of the table without its leading zero
MonthTextUnpadded(m) ==
    LET n == IF m[1] = "true" THEN 1 ELSE m[2][1]
    IN  IF m[1] \notin {"int", "true"} THEN Failed("TypeError")
        ELSE IF n >= Len(Months) THEN Returned(ZFill(PyStr(m), 2))
        ELSE IF n >= 0 THEN Returned(PyStr(m))
        ELSE IF n >= 0 - Len(Months) THEN Returned(Months[Len(Months) + n + 1])
        ELSE Failed("IndexError")

\* months[m] if m < len(months) else str(m).zfill(2), for a truthy m:
\* an index below zero counts from the end of the table, one beyond its
\* start raises IndexError, and a month that is no number cannot be
\* compared with the length
MonthText(m) ==
    LET n == IF m[1] = "true" THEN 1 ELSE m[2][1]
    IN  IF m[1] \notin {"int", "true"} THEN Failed("TypeError")
        ELSE IF n >= Len(Months) THEN Returned(ZFill(PyStr(m), 2))
        ELSE IF n >= 0 THEN Returned(Months[n + 1])
        ELSE IF n >= 0 - Len(Months) THEN Returned(Months[Len(Months) + n + 1])
        ELSE Failed("IndexError")

\* f"{month}/{year}"
MonthYear(m, y) ==
    LET mt == MonthText(m)
    IN  IF mt.exc # "none" THEN mt
        ELSE Returned(mt.text \o <<47>> \o PyStr(y))

FormatDateRange(date_range) ==
    LET from_month == Get(date_range, KeyFromMonth, None)
        from_year == Get(date_range, KeyFromYear, None)
        to_month == Get(date_range, KeyToMonth, None)
        to_year == Get(date_range, KeyToYear, None)
        is_ongoing == Get(date_range, KeyIsOngoing, PyFalse)
        from_str ==
            IF Truthy(from_month) /\ Truthy(from_year)
            THEN MonthYear(from_month, from_year)
            ELSE Returned(<<>>)
        to_str ==
            IF Truthy(is_ongoing) THEN Returned(PresentText)
            ELSE IF Truthy(to_month) /\ Truthy(to_year)
            THEN MonthYear(to_month, to_year)
            ELSE IF Truthy(to_year) THEN Returned(PyStr(to_year))
            ELSE Returned(<<>>)
    IN  IF ~Truthy(date_range) THEN Returned(<<>>)
        ELSE IF from_str.exc # "none" THEN from_str
        ELSE IF to_str.exc # "none" THEN to_str
        ELSE IF from_str.text # <<>> /\ to_str.text # <<>>
             THEN Returned(from_str.text \o <<32, 45, 32>> \o to_str.text)
        ELSE IF from_str.text # <<>> THEN from_str
        ELSE Returned(<<>>)

(***************************************************************************)
(* The text functions of the renderer, on strings as code points.          *)
(***************************************************************************)
\* str.lstrip()
LStrip(t) ==
    LET kept == {n \in 1..Len(t) : ~IsPyWhite(t[n])}
    IN  IF kept = {} THEN <<>> ELSE From(t, Least(kept))

\* the end of the match of <[^>]+> that starts at index p, 0 when none:
\* the first '>' after p, with at least one character before it
TagEnd(t, p) ==
    LET gts == {q \in (p + 1)..Len(t) : t[q] = 62}
    IN  IF p > Len(t) \/ t[p] # 60 \/ gts = {} \/ Least(gts) = p + 1
        THEN 0 ELSE Least(gts)

RECURSIVE StripTagsFrom(_, _)
\* re.sub(r'<[^>]+>', '', t), from index i on
StripTagsFrom(t, i) ==
    LET starts == {p \in i..Len(t) : TagEnd(t, p) # 0}
    IN  IF starts = {} THEN From(t, i)
        ELSE SubSeq(t, i, Least(starts) - 1)
             \o StripTagsFrom(t, TagEnd(t, Least(starts)) + 1)

RECURSIVE ReplaceFrom(_, _, _, _)
\* str.replace(old, new), from index i on
ReplaceFrom(t, old, new, i) ==
    LET p == Find(t, old, i)
    IN  IF p = 0 THEN From(t, i)
        ELSE SubSeq(t, i, p - 1) \o new \o ReplaceFrom(t, old, new, p + Len(old))

Replace(t, old, new) == ReplaceFrom(t, old, new, 1)

\* "&nbsp;", "&amp;", "&lt;", "&gt;"
EntityNbsp == <<38, 110, 98, 115, 112, 59>>

EntityAmp == <<38, 97, 109, 112, 59>>

EntityLt == <<38, 108, 116, 59>>

EntityGt == <<38, 103, 116, 59>>

CleanHtmlText(text) ==
    IF text = <<>> THEN <<>>
    ELSE Strip(Replace(Replace(Replace(Replace(StripTagsFrom(text, 1),
                 EntityNbsp, <<32>>), EntityAmp, <<38>>),
                 EntityLt, <<60>>), EntityGt, <<62>>))

IsDigit(c) == c \in 48..57

\* [A-Z]
IsAsciiUpper(c) == c \in 65..90

\* str.isupper() of one character: the capitals of ASCII and of Latin-1
IsUpperChar(c) == c \in 65..90 \/ (c \in 192..222 /\ c # 215)

\* the index after the whitespace that starts at index i
SkipWhite(t, i) ==
    CHOOSE j \in i..(Len(t) + 1) :
        /\ \A m \in i..(j - 1) : IsPyWhite(t[m])
        /\ j > Len(t) \/ ~IsPyWhite(t[j])

\* re.sub(r'^\s*\d+\.\s*', '', t)
StripOrdinal(t) ==
    LET a == SkipWhite(t, 1)
        b == CHOOSE j \in a..(Len(t) + 1) :
                 /\ \A m \in a..(j - 1) : IsDigit(t[m])
                 /\ j > Len(t) \/ ~IsDigit(t[j])
    IN  IF b > a /\ b <= Len(t) /\ t[b] = 46
        THEN From(t, SkipWhite(t, b + 1)) ELSE t

\* re.sub(r'^[•\-–—]\s*', '', t)
StripBullet(t) ==
    IF t # <<>> /\ t[1] \in {8226, 45, 8211, 8212}
    THEN From(t, SkipWhite(t, 2)) ELSE t

NormalizeDisplayTitle(raw) ==
    LET s == StripBullet(StripOrdinal(Strip(raw)))
        s2 == IF /\ Len(s) > 2
                 /\ s[2] \in {32, 9}
                 /\ (s[1] \in {110, 78} \/ IsUpperChar(s[3]))
              THEN LStrip(From(s, 3)) ELSE s
    IN  IF raw = <<>> THEN <<>> ELSE Strip(s2)

\* re.sub(r'^.\s+(?=[A-Z])', '', t): any character but a line feed, then
\* whitespace up to a capital letter
StripLeadChar(t) ==
    LET j == SkipWhite(t, 2)
    IN  IF Len(t) >= 2 /\ t[1] # 10 /\ j > 2 /\ j <= Len(t) /\ IsAsciiUpper(t[j])
        THEN From(t, j) ELSE t

RECURSIVE StripLeadChars(_)
\* the loop of _normalize_paragraph
StripLeadChars(t) ==
    IF StripLeadChar(t) = t THEN t ELSE StripLeadChars(Strip(StripLeadChar(t)))

NormalizeParagraph(raw) ==
    IF raw = <<>> THEN <<>>
    ELSE Strip(StripLeadChars(StripBullet(StripOrdinal(Strip(raw)))))

\* the characters str.splitlines() breaks a line at
IsLineBreak(c) == c \in {10, 11, 12, 13, 28, 29, 30, 133, 8232, 8233}

RECURSIVE SplitLinesFrom(_, _)
\* str.splitlines(), from index i on: \r\n is one break
SplitLinesFrom(t, i) ==
    LET brs == {p \in i..Len(t) : IsLineBreak(t[p])}
        p == Least(brs)
        next == IF t[p] = 13 /\ p < Len(t) /\ t[p + 1] = 10 THEN p + 2 ELSE p + 1
    IN  IF i > Len(t) THEN <<>>
        ELSE IF brs = {} THEN <<From(t, i)>>
        ELSE <<SubSeq(t, i, p - 1)>> \o SplitLinesFrom(t, next)

SplitLines(t) == SplitLinesFrom(t, 1)

RECURSIVE Join(_, _)
\* sep.join(parts)
Join(sep, parts) ==
    IF parts = <<>> THEN <<>>
    ELSE IF Len(parts) = 1 THEN parts[1]
    ELSE parts[1] \o sep \o Join(sep, Tail(parts))

\* str.lower(), of ASCII and Latin-1 capitals
Lower(t) == [n \in 1..Len(t) |-> IF IsUpperChar(t[n]) THEN t[n] + 32 ELSE t[n]]

\* sub in t
Contains(t, sub) == sub = <<>> \/ Find(t, sub, 1) # 0

ProjectDescriptionDisplay(raw_desc, project_name) ==
    LET s == NormalizeParagraph(raw_desc)
        pn == Strip(project_name)
        lines == SplitLines(s)
        first_norm == NormalizeParagraph(Strip(lines[1]))
    IN  IF raw_desc = <<>> \/ s = <<>> THEN <<>>
        ELSE IF pn = <<>> THEN s
        ELSE IF \/ first_norm = pn
                \/ Lower(first_norm) = Lower(pn)
                \/ Contains(first_norm, pn)
                \/ LitAt(first_norm, 1, pn)
                \/ /\ Len(first_norm) > Len(pn)
                   /\ SubSeq(first_norm, 1, Len(pn)) = pn
                   /\ first_norm[Len(pn) + 1] \in {32, 58, 45}
        THEN Strip(Join(<<10>>, Tail(lines)))
        ELSE s

(***************************************************************************)
(* The two layout backends.  What a backend builds is kept as its visible  *)
(* lines in order: a line is [kind, parts], the kind one of "header",      *)
(* "heading", "line" and "bullet", the parts the texts the line joins with *)
(* its separator.  A result is [exc, lines]: an exception leaves the       *)
(* render without output.                                                  *)
(***************************************************************************)
\* "enabled"
KeyEnabled == <<101, 110, 97, 98, 108, 101, 100>>

\* "location"
KeyLocation == <<108, 111, 99, 97, 116, 105, 111, 110>>

\* "dateRange"
KeyDateRange == <<100, 97, 116, 101, 82, 97, 110, 103, 101>>

\* "degree"
KeyDegree == <<100, 101, 103, 114, 101, 101>>

\* "institution"
KeyInstitution == <<105, 110, 115, 116, 105, 116, 117, 116, 105, 111, 110>>

\* "gpa"
KeyGpa == <<103, 112, 97>>

\* "maxGpa"
KeyMaxGpa == <<109, 97, 120, 71, 112, 97>>

\* "levelText"
KeyLevelText == <<108, 101, 118, 101, 108, 84, 101, 120, 116>>

\* "issuer"
KeyIssuer == <<105, 115, 115, 117, 101, 114>>

\* "header"
KeyHeader == <<104, 101, 97, 100, 101, 114>>

\* "sections"
KeySections == <<115, 101, 99, 116, 105, 111, 110, 115>>

\* "email"
KeyEmail == <<101, 109, 97, 105, 108>>

\* "link"
KeyLink == <<108, 105, 110, 107>>

\* "SUMMARY"
HeadingSummary == <<83, 85, 77, 77, 65, 82, 89>>

\* "EXPERIENCE"
HeadingExperience == <<69, 88, 80, 69, 82, 73, 69, 78, 67, 69>>

\* "EDUCATION"
HeadingEducation == <<69, 68, 85, 67, 65, 84, 73, 79, 78>>

\* "SKILLS"
HeadingSkills == <<83, 75, 73, 76, 76, 83>>

\* "PROJECTS"
HeadingProjects == <<80, 82, 79, 74, 69, 67, 84, 83>>

\* "LANGUAGES"
HeadingLanguages == <<76, 65, 78, 71, 85, 65, 71, 69, 83>>

\* "CERTIFICATIONS"
HeadingCertifications == <<67, 69, 82, 84, 73, 70, 73, 67, 65, 84, 73, 79, 78, 83>>

\* "GPA: "
GpaLabel == <<71, 80, 65, 58, 32>>

\* "linkedin.com"
LinkedInHost == <<108, 105, 110, 107, 101, 100, 105, 110, 46, 99, 111, 109>>

\* "linkedin.com/in/"
LinkedInPrefix == <<108, 105, 110, 107, 101, 100, 105, 110, 46, 99, 111, 109, 47, 105, 110, 47>>

\* "5.0"
DefaultMaxGpa == <<53, 46, 48>>

Ok(ls) == [exc |-> "none", lines |-> ls]

Err(e) == [exc |-> e, lines |-> <<>>]

Line(kind, parts) == [kind |-> kind, parts |-> parts]

\* the results one after the other: the first exception ends the render
Chain(rs) ==
    LET bad == {n \in 1..Len(rs) : rs[n].exc # "none"}
    IN  IF bad # {} THEN Err(rs[Least(bad)].exc)
        ELSE Ok(Concat([n \in 1..Len(rs) |-> rs[n].lines]))

\* a or b
Or(a, b) == IF Truthy(a) THEN a ELSE b

\* item.get(k, '')
Field(item, k) == Get(item, k, Str(<<>>))

\* str.upper(), of the small letters of ASCII and of Latin-1
Upper(t) ==
    [n \in 1..Len(t) |->
        IF t[n] \in 97..122 \/ (t[n] \in 224..254 /\ t[n] # 247)
        THEN t[n] - 32 ELSE t[n]]

\* a method of str called on v: AttributeError on any other value
StrMethod(v, F(_)) ==
    IF v[1] = "str" THEN Returned(F(v[2])) ELSE Failed("AttributeError")

\* self.clean_html_text(v): a falsy value gives '', a text is cleaned, and
\* re.sub rejects any other value
CleanValue(v) ==
    IF ~Truthy(v) THEN Returned(<<>>)
    ELSE IF v[1] = "str" THEN Returned(CleanHtmlText(v[2]))
    ELSE Failed("TypeError")

\* the values a for loop over v visits: the elements of a list, the
\* characters of a string, the keys of a dictionary
Iterate(v) ==
    CASE v[1] = "arr" -> [exc |-> "none", elems |-> v[2]]
      [] v[1] = "str" ->
           [exc |-> "none", elems |-> [n \in 1..Len(v[2]) |-> Str(<<v[2][n]>>)]]
      [] v[1] = "obj" ->
           [exc |-> "none", elems |-> [n \in 1..Len(v[2]) |-> Str(v[2][n][1])]]
      [] OTHER -> [exc |-> "TypeError", elems |-> <<>>]

\* sep.join(vs) of a sequence of values: every one must be a string
JoinLine(kind, vs) ==
    IF \E n \in 1..Len(vs) : vs[n][1] # "str" THEN Err("TypeError")
    ELSE Ok(<<Line(kind, [n \in 1..Len(vs) |-> vs[n][2]])>>)

\* [p for p in vs if p]
Truthies(vs) == SelectSeq(vs, Truthy)

\* self.format_date_range(item.get('dateRange', {}))
DateOf(item) ==
    LET dr == Get(item, KeyDateRange, EmptyObj)
    IN  IF ~Truthy(dr) THEN Returned(<<>>)
        ELSE IF dr[1] # "obj" THEN Failed("AttributeError")
        ELSE FormatDateRange(dr)

\* for bullet in item.get('bullets', []): one bullet line each
BulletLines(item) ==
    LET it == Iterate(Get(item, KeyBullets, Arr(<<>>)))
        cleaned == [n \in 1..Len(it.elems) |-> CleanValue(it.elems[n])]
    IN  IF it.exc # "none" THEN Err(it.exc)
        ELSE Chain([n \in 1..Len(cleaned) |->
                 IF cleaned[n].exc # "none" THEN Err(cleaned[n].exc)
                 ELSE Ok(<<Line("bullet", <<cleaned[n].text>>)>>)])

\* a line of one text
TextLine(kind, t) == Ok(<<Line(kind, <<t>>)>>)

\* nothing
NoLines == Ok(<<>>)

\* the texts sep.join(tags) joins
TagTexts(tags) ==
    LET it == Iterate(tags)
    IN  IF it.exc # "none" THEN [exc |-> it.exc, parts |-> <<>>]
        ELSE IF \E n \in 1..Len(it.elems) : it.elems[n][1] # "str"
        THEN [exc |-> "TypeError", parts |-> <<>>]
        ELSE [exc |-> "none", parts |-> [n \in 1..Len(it.elems) |-> it.elems[n][2]]]

\* self._normalize_display_title(v): a value that is no text, or is falsy,
\* comes back as 'v or ""'
TitleValue(v) ==
    IF ~Truthy(v) THEN Str(<<>>)
    ELSE IF v[1] # "str" THEN v
    ELSE Str(NormalizeDisplayTitle(v[2]))

\* self._item_title(item)
ItemTitle(item) ==
    TitleValue(Or(Or(Or(Field(item, KeyTitle), Field(item, KeyName)),
                     Field(item, KeyProjectName)), Str(<<>>)))

\* self._project_display(item): [exc, name, org, role], the organization
\* line as the parts it joins
ProjectDisplay(item) ==
    LET project_name ==
            TitleValue(Or(Or(Or(Field(item, KeyProjectName), Field(item, KeyName)),
                             Field(item, KeyTitle)), Str(<<>>)))
        role == StrMethod(Or(Field(item, KeyPosition), Field(item, KeyTitle)), Strip)
        workplace ==
            StrMethod(Or(Or(Field(item, KeyWorkplace), Field(item, KeyCompany)),
                         Str(<<>>)), Strip)
        location == StrMethod(Or(Field(item, KeyLocation), Str(<<>>)), Strip)
        date_range == DateOf(item)
        bad == SelectSeq(<<role, workplace, location, date_range>>,
                         LAMBDA r : r.exc # "none")
    IN  IF bad # <<>>
        THEN [exc |-> bad[1].exc, name |-> project_name, org |-> <<>>, role |-> <<>>]
        ELSE [exc |-> "none",
              name |-> project_name,
              org |-> SelectSeq(<<workplace.text, location.text, date_range.text>>,
                                LAMBDA t : t # <<>>),
              role |-> IF project_name[1] = "str" /\ project_name[2] = role.text
                       THEN <<>> ELSE role.text]

\* self._project_description_display(raw_desc, project_name) for the name
\* as a value: a name that is no text has no strip()
ProjectDescription(raw_desc, pn) ==
    IF raw_desc = <<>> \/ NormalizeParagraph(raw_desc) = <<>> THEN Returned(<<>>)
    ELSE IF ~Truthy(pn) THEN Returned(NormalizeParagraph(raw_desc))
    ELSE IF pn[1] # "str" THEN Failed("AttributeError")
    ELSE Returned(ProjectDescriptionDisplay(raw_desc, pn[2]))

\* a result of a text step as lines: nothing for the empty text
LineIf(kind, r) ==
    IF r.exc # "none" THEN Err(r.exc)
    ELSE IF r.text = <<>> THEN NoLines
    ELSE TextLine(kind, r.text)

\* the text of an item of a section of no known kind
OtherText(item) ==
    LET text == Or(Field(item, KeyText), Field(item, KeyDescription))
        c == CleanValue(text)
    IN  IF ~Truthy(text) THEN Returned(<<>>)
        ELSE IF c.exc # "none" THEN c
        ELSE Returned(NormalizeParagraph(c.text))

\* the description of a project item
ProjectText(item, pn) ==
    LET c == CleanValue(Or(Field(item, KeyDescription), Field(item, KeyText)))
    IN  IF c.exc # "none" THEN c ELSE ProjectDescription(c.text, pn)

(***************************************************************************)
(* render_with_reportlab: the paragraphs of the story.                     *)
(***************************************************************************)
RlSummaryItem(item) == LineIf("line", CleanValue(Field(item, KeyText)))

RlExperienceItem(item) ==
    LET position == Or(Field(item, KeyPosition), Field(item, KeyTitle))
        company == Or(Field(item, KeyWorkplace), Field(item, KeyCompany))
        location == Field(item, KeyLocation)
        date_range == DateOf(item)
        sub_parts == Truthies(<<company, location, Str(date_range.text)>>)
    IN  IF date_range.exc # "none" THEN Err(date_range.exc)
        ELSE Chain(<<TextLine("line", PyStr(position)),
                     IF sub_parts # <<>> THEN JoinLine("line", sub_parts) ELSE NoLines,
                     BulletLines(item)>>)

RlEducationItem(item) ==
    LET date_range == DateOf(item)
        gpa == Field(item, KeyGpa)
        detail_parts ==
            Truthies(<<Field(item, KeyInstitution), Field(item, KeyLocation),
                       Str(date_range.text)>>)
    IN  IF date_range.exc # "none" THEN Err(date_range.exc)
        ELSE Chain(<<TextLine("line", PyStr(Field(item, KeyDegree))),
                     IF detail_parts # <<>> THEN JoinLine("line", detail_parts)
                     ELSE NoLines,
                     IF Truthy(gpa) THEN TextLine("line", GpaLabel \o PyStr(gpa))
                     ELSE NoLines>>)

\* the skill line of both backends
SkillItem(item) ==
    LET title == Field(item, KeyTitle)
        tags == Get(item, KeyTags, Arr(<<>>))
        joined == TagTexts(tags)
    IN  IF ~Truthy(title) /\ ~Truthy(tags) THEN NoLines
        ELSE IF joined.exc # "none" THEN Err(joined.exc)
        ELSE IF Truthy(title)
        THEN Ok(<<Line("line", <<PyStr(title)>> \o joined.parts)>>)
        ELSE Ok(<<Line("line", joined.parts)>>)

\* the lines of a project item from what _project_display returned (pd)
\* and from its description (desc)
ProjectLines(pd, desc, bullets) ==
    IF pd.exc # "none" THEN Err(pd.exc)
    ELSE IF desc.exc # "none" THEN Err(desc.exc)
    ELSE Chain(<<IF Truthy(pd.name) THEN TextLine("line", PyStr(pd.name)) ELSE NoLines,
                 IF pd.org # <<>> THEN Ok(<<Line("line", pd.org)>>) ELSE NoLines,
                 IF pd.role # <<>> THEN TextLine("line", pd.role) ELSE NoLines,
                 LineIf("line", desc),
                 bullets>>)

\* the description of a project item beside what _project_display returned
ProjectParts(item, pd, bullets) ==
    ProjectLines(pd, ProjectText(item, pd.name), bullets)

\* the lines of a project item, the same in both backends but for the
\* bullets
ProjectItem(item, bullets) == ProjectParts(item, ProjectDisplay(item), bullets)

RlProjectItem(item) == ProjectItem(item, BulletLines(item))

\* the language line of both backends
LanguageItem(item) ==
    LET name == Field(item, KeyName)
        level == Field(item, KeyLevelText)
    IN  IF ~Truthy(name) THEN NoLines
        ELSE IF ~Truthy(level) THEN TextLine("line", PyStr(name))
        ELSE TextLine("line", PyStr(name) \o <<58, 32>> \o PyStr(level))

RlCertificateItem(item) ==
    LET date_range == DateOf(item)
        issuer == Field(item, KeyIssuer)
    IN  IF date_range.exc # "none" THEN Err(date_range.exc)
        ELSE JoinLine("line",
                 <<Str(PyStr(Field(item, KeyTitle)))>>
                 \o (IF Truthy(issuer) THEN <<issuer>> ELSE <<>>)
                 \o (IF date_range.text # <<>> THEN <<Str(date_range.text)>> ELSE <<>>))

\* the title, the text and the bullets of an item of a section of no
\* known kind
OtherItem(item, bullets) ==
    LET text == OtherText(item)
        title == ItemTitle(item)
    IN  Chain(<<IF text.exc # "none" THEN Err(text.exc) ELSE NoLines,
                IF Truthy(title) THEN TextLine("line", PyStr(title)) ELSE NoLines,
                LineIf("line", text),
                bullets>>)

RlOtherItem(item) == OtherItem(item, BulletLines(item))

\* the items of a section, each rendered by F: an item that is no
\* dictionary has no get()
ItemLines(sec, F(_)) ==
    LET items == ItemsOf(sec)
    IN  Chain([n \in 1..Len(items) |->
                 IF items[n][1] # "obj" THEN Err("AttributeError") ELSE F(items[n])])

\* _resolve_section_type(section) as the backends call it: [exc, type]
SectionKind(sec) ==
    LET items == ItemsOf(sec)
        bad == {n \in 1..Len(items) : items[n][1] # "obj"}
        sound == Obj(<< <<KeyItems, Arr(SubSeq(items, 1, Least(bad) - 1))>> >>)
    IN  IF Get(sec, KeyT, Str(<<>>)) \in Known
        THEN [exc |-> "none", type |-> Get(sec, KeyT, Str(<<>>))]
        ELSE IF bad = {} THEN [exc |-> "none", type |-> ResolveSectionType(sec)]
        ELSE IF SectionHasSummaryItems(sound)
        THEN [exc |-> "none", type |-> SummarySection]
        ELSE [exc |-> "AttributeError", type |-> None]

\* the heading of a section of no known kind: section_name.upper()
OtherHeading(sec, type) ==
    LET section_name == Get(sec, KeyName, IF Truthy(type) THEN type ELSE OtherType)
        up == StrMethod(section_name, Upper)
    IN  IF ~Truthy(section_name) THEN NoLines
        ELSE IF up.exc # "none" THEN Err(up.exc)
        ELSE TextLine("heading", up.text)

\* the variant that takes every section for enabled
IsEnabledAlways(sec) == TRUE

\* section.get('enabled', True)
IsEnabled(sec) == Truthy(Get(sec, KeyEnabled, PyTrue))

\* the branch of the section loop for a section of type t
RlSectionOf(sec, t) ==
        IF t = SummarySection
        THEN Chain(<<TextLine("heading", HeadingSummary), ItemLines(sec, RlSummaryItem)>>)
        ELSE IF t = ExperienceSection
        THEN Chain(<<TextLine("heading", HeadingExperience),
                     ItemLines(sec, RlExperienceItem)>>)
        ELSE IF t = EducationSection
        THEN Chain(<<TextLine("heading", HeadingEducation),
                     ItemLines(sec, RlEducationItem)>>)
        ELSE IF t = TechnologySection
        THEN Chain(<<TextLine("heading", HeadingSkills), ItemLines(sec, SkillItem)>>)
        ELSE IF t \in {ActivitySection, ProjectSection}
        THEN Chain(<<TextLine("heading", HeadingProjects),
                     ItemLines(sec, RlProjectItem)>>)
        ELSE IF t = LanguageSection
        THEN Chain(<<TextLine("heading", HeadingLanguages),
                     ItemLines(sec, LanguageItem)>>)
        ELSE IF t = CertificateSection
        THEN Chain(<<TextLine("heading", HeadingCertifications),
                     ItemLines(sec, RlCertificateItem)>>)
        ELSE Chain(<<OtherHeading(sec, t), ItemLines(sec, RlOtherItem)>>)

\* one pass of the section loop
RlSection(sec) ==
    LET kind == SectionKind(sec)
    IN  IF ~IsEnabled(sec) THEN NoLines
        ELSE IF kind.exc # "none" THEN Err(kind.exc)
        ELSE RlSectionOf(sec, kind.type)

\* the name line and the title line of the header
HeaderNameLines(header) ==
    LET name == Field(header, KeyName)
        title == Field(header, KeyTitle)
        up == StrMethod(name, Upper)
    IN  Chain(<<IF ~Truthy(name) THEN NoLines
                ELSE IF up.exc # "none" THEN Err(up.exc)
                ELSE TextLine("header", up.text),
                IF Truthy(title) THEN TextLine("header", PyStr(title)) ELSE NoLines>>)

RlHeader(header) ==
    LET contact_parts ==
            Truthies(<<Field(header, KeyEmail), Field(header, KeyLocation),
                       Field(header, KeyLink)>>)
    IN  Chain(<<HeaderNameLines(header),
                IF contact_parts # <<>> THEN JoinLine("header", contact_parts)
                ELSE NoLines>>)

\* self.header and self.sections
HeaderOf(d) == Get(d, KeyHeader, EmptyObj)

SectionsOf(d) == Get(d, KeySections, Arr(<<>>))[2]

\* render_with_reportlab on the renderer's data d: the story handed to
\* doc.build
RenderWithReportlab(d) ==
    Chain(<<RlHeader(HeaderOf(d))>>
          \o [n \in 1..Len(SectionsOf(d)) |-> RlSection(SectionsOf(d)[n])])

(***************************************************************************)
(* generate_html: the elements of the markup that carry text.              *)
(***************************************************************************)
\* if item.get('bullets'): one <li> for each bullet
HtmlBullets(item) ==
    IF Truthy(Get(item, KeyBullets, None)) THEN BulletLines(item) ELSE NoLines

\* a <p> for every item, also for an empty text
HtmlSummaryItem(item) ==
    LET c == CleanValue(Field(item, KeyText))
    IN  IF c.exc # "none" THEN Err(c.exc) ELSE TextLine("line", c.text)

HtmlExperienceItem(item) ==
    LET position == Or(Field(item, KeyPosition), Field(item, KeyTitle))
        company == Or(Field(item, KeyWorkplace), Field(item, KeyCompany))
        location == Field(item, KeyLocation)
        date_range == DateOf(item)
        details_parts == Truthies(<<Str(date_range.text), location>>)
    IN  IF date_range.exc # "none" THEN Err(date_range.exc)
        ELSE Chain(<<IF Truthy(position) THEN TextLine("line", PyStr(position))
                     ELSE NoLines,
                     IF Truthy(company) THEN TextLine("line", PyStr(company))
                     ELSE NoLines,
                     IF details_parts # <<>> THEN JoinLine("line", details_parts)
                     ELSE NoLines,
                     HtmlBullets(item)>>)

HtmlEducationItem(item) ==
    LET degree == Field(item, KeyDegree)
        date_range == DateOf(item)
        gpa == Field(item, KeyGpa)
        max_gpa == Get(item, KeyMaxGpa, Str(DefaultMaxGpa))
        details_parts ==
            Truthies(<<Field(item, KeyInstitution), Field(item, KeyLocation),
                       Str(date_range.text)>>)
    IN  IF date_range.exc # "none" THEN Err(date_range.exc)
        ELSE Chain(<<IF Truthy(degree) THEN TextLine("line", PyStr(degree))
                     ELSE NoLines,
                     IF details_parts # <<>> THEN JoinLine("line", details_parts)
                     ELSE NoLines,
                     IF Truthy(gpa)
                     THEN TextLine("line", GpaLabel \o PyStr(gpa) \o <<47>>
                                           \o PyStr(max_gpa))
                     ELSE NoLines>>)

HtmlProjectItem(item) == ProjectItem(item, HtmlBullets(item))

HtmlCertificateItem(item) ==
    LET date_range == DateOf(item)
        issuer == Field(item, KeyIssuer)
    IN  IF date_range.exc # "none" THEN Err(date_range.exc)
        ELSE Ok(<<Line("line",
                 <<PyStr(Field(item, KeyTitle))>>
                 \o (IF Truthy(issuer) THEN <<PyStr(issuer)>> ELSE <<>>)
                 \o (IF date_range.text # <<>> THEN <<date_range.text>> ELSE <<>>))>>)

HtmlOtherItem(item) == OtherItem(item, HtmlBullets(item))

\* the branch of the section loop for a section of type t
HtmlSectionOf(sec, t) ==
        IF t = SummarySection
        THEN Chain(<<TextLine("heading", HeadingSummary),
                     ItemLines(sec, HtmlSummaryItem)>>)
        ELSE IF t = ExperienceSection
        THEN Chain(<<TextLine("heading", HeadingExperience),
                     ItemLines(sec, HtmlExperienceItem)>>)
        ELSE IF t = EducationSection
        THEN Chain(<<TextLine("heading", HeadingEducation),
                     ItemLines(sec, HtmlEducationItem)>>)
        ELSE IF t = TechnologySection
        THEN Chain(<<TextLine("heading", HeadingSkills), ItemLines(sec, SkillItem)>>)
        ELSE IF t \in {ActivitySection, ProjectSection}
        THEN Chain(<<TextLine("heading", HeadingProjects),
                     ItemLines(sec, HtmlProjectItem)>>)
        ELSE IF t = LanguageSection
        THEN Chain(<<TextLine("heading", HeadingLanguages),
                     ItemLines(sec, LanguageItem)>>)
        ELSE IF t = CertificateSection
        THEN Chain(<<TextLine("heading", HeadingCertifications),
                     ItemLines(sec, HtmlCertificateItem)>>)
        ELSE Chain(<<OtherHeading(sec, t), ItemLines(sec, HtmlOtherItem)>>)

\* one pass of the section loop
HtmlSection(sec) ==
    LET kind == SectionKind(sec)
    IN  IF ~IsEnabled(sec) THEN NoLines
        ELSE IF kind.exc # "none" THEN Err(kind.exc)
        ELSE HtmlSectionOf(sec, kind.type)

\* the link as the contact line shows it
HtmlLink(link) ==
    IF link[1] # "str" THEN Failed("AttributeError")
    ELSE IF LitAt(link[2], 1, LinkedInHost) THEN Returned(link[2])
    ELSE Returned(LinkedInPrefix \o link[2])

HtmlHeader(header) ==
    LET link == Field(header, KeyLink)
        shown == HtmlLink(link)
        contact_parts ==
            Truthies(<<Field(header, KeyEmail), Field(header, KeyLocation)>>)
            \o (IF Truthy(link) THEN <<Str(shown.text)>> ELSE <<>>)
    IN  Chain(<<HeaderNameLines(header),
                IF Truthy(link) /\ shown.exc # "none" THEN Err(shown.exc)
                ELSE IF contact_parts # <<>> THEN JoinLine("header", contact_parts)
                ELSE NoLines>>)

\* generate_html on the renderer's data d
GenerateHtml(d) ==
    Chain(<<HtmlHeader(HeaderOf(d))>>
          \o [n \in 1..Len(SectionsOf(d)) |-> HtmlSection(SectionsOf(d)[n])])

(***************************************************************************)
(* The sections handed to the classifier: a tag, or none, and up to        *)
(* MaxItems items drawn from ItemPool.                                      *)
(***************************************************************************)
\* an absent key
Absent == <<"absent", <<>>>>

\* the pair of a key that is present
Opt(k, v) == IF v = Absent THEN <<>> ELSE << <<k, v>> >>

\* "Dev", "Go", "Acme", "Hi"
TextDev == Str(<<68, 101, 118>>)

TextGo == Str(<<71, 111>>)

TextAcme == Str(<<65, 99, 109, 101>>)

TextHi == Str(<<72, 105>>)

ItemPool ==
    <<  \* 1: a text
        Obj(<< <<KeyText, TextHi>> >>),
        \* 2: a text of a space and a tab
        Obj(<< <<KeyText, Str(<<32, 9>>)>> >>),
        \* 3: a text beside a position and tags
        Obj(<< <<KeyText, TextHi>>, <<KeyPosition, TextDev>>,
               <<KeyTags, Arr(<<TextGo>>)>> >>),
        \* 4: a position and tags
        Obj(<< <<KeyPosition, TextDev>>, <<KeyTags, Arr(<<TextGo>>)>> >>),
        \* 5: tags
        Obj(<< <<KeyTags, Arr(<<TextGo>>)>> >>),
        \* 6: an empty list of tags
        Obj(<< <<KeyTags, Arr(<<>>)>> >>),
        \* 7: a title and tags
        Obj(<< <<KeyTitle, TextHi>>, <<KeyTags, Arr(<<TextGo>>)>> >>),
        \* 8: a name and a description
        Obj(<< <<KeyName, TextHi>>, <<KeyDescription, TextHi>> >>),
        \* 9: an empty name and a null description
        Obj(<< <<KeyName, Str(<<>>)>>, <<KeyDescription, None>> >>),
        \* 10: a company
        Obj(<< <<KeyCompany, TextAcme>> >>),
        \* 11: a workplace
        Obj(<< <<KeyWorkplace, TextAcme>> >>),
        \* 12: a null text
        Obj(<< <<KeyText, None>> >>),
        \* 13: an empty text
        Obj(<< <<KeyText, Str(<<>>)>> >>),
        \* 14: a text that is the number 0
        Obj(<< <<KeyText, Num(0)>> >>),
        \* 15: tags that are no list
        Obj(<< <<KeyTags, TextGo>> >>),
        \* 16: a blank text beside tags
        Obj(<< <<KeyText, Str(<<32>>)>>, <<KeyTags, Arr(<<TextGo>>)>> >>),
        \* 17: a project name
        Obj(<< <<KeyProjectName, TextHi>> >>),
        \* 18: no key at all
        EmptyObj
    >>

\* "CustomSection"
CustomSection == Str(<<67, 117, 115, 116, 111, 109, 83, 101, 99, 116, 105, 111, 110>>)

TagPool ==
    <<Absent, SummarySection, ExperienceSection, EducationSection,
      TechnologySection, ActivitySection, ProjectSection, LanguageSection,
      CertificateSection, CustomSection, Str(<<>>), None>>

\* the sequences of at most MaxItems items
ItemLists ==
    UNION {[1..n -> {ItemPool[k] : k \in 1..Len(ItemPool)}] : n \in 0..MaxItems}

MkSection(tag, items) == Obj(Opt(KeyT, tag) \o << <<KeyItems, Arr(items)>> >>)

(***************************************************************************)
(* The date ranges handed to format_date_range: each key absent, null or   *)
(* a value.                                                                *)
(***************************************************************************)
MonthVals == {Absent, None} \cup {Num(m) : m \in (0 - MaxMonth)..MaxMonth}

YearVals == {Absent, None, Num(0), Num(2019), Num(2020)}

EndMonthVals == {Absent, None, Num(0), Num(6), Num(MaxMonth)}

EndYearVals == {Absent, None, Num(2021)}

OngoingVals == {Absent, PyTrue, PyFalse}

MkRange(fm, fy, tm, ty, og) ==
    Obj(Opt(KeyFromMonth, fm) \o Opt(KeyFromYear, fy) \o Opt(KeyToMonth, tm)
        \o Opt(KeyToYear, ty) \o Opt(KeyIsOngoing, og))

(***************************************************************************)
(* The texts handed to the text functions: up to MaxTokens tokens of a     *)
(* pool, one after the other.                                              *)
(***************************************************************************)
\* tags, entities and plain text
CleanTokens ==
    <<  \* '<'
        <<60>>,
        \* '>'
        <<62>>,
        \* '&lt;'
        <<38, 108, 116, 59>>,
        \* '&gt;'
        <<38, 103, 116, 59>>,
        \* '&amp;'
        <<38, 97, 109, 112, 59>>,
        \* '&nbsp;'
        <<38, 110, 98, 115, 112, 59>>,
        \* 'b'
        <<98>>,
        \* 'lt;'
        <<108, 116, 59>>
    >>

\* ordinals, bullet glyphs, stray characters and plain text
MarkerTokens ==
    <<  \* '1. '
        <<49, 46, 32>>,
        \* '2.'
        <<50, 46>>,
        \* '• '
        <<8226, 32>>,
        \* '- '
        <<45, 32>>,
        \* 'n '
        <<110, 32>>,
        \* 'x '
        <<120, 32>>,
        \* 'Title'
        <<84, 105, 116, 108, 101>>,
        \* 'b'
        <<98>>
    >>

\* pieces of a first line, and further lines with their break
DescTokens ==
    <<  \* 'Acme Project'
        <<65, 99, 109, 101, 32, 80, 114, 111, 106, 101, 99, 116>>,
        \* 'acme project'
        <<97, 99, 109, 101, 32, 112, 114, 111, 106, 101, 99, 116>>,
        \* 'Acme Project: demo'
        <<65, 99, 109, 101, 32, 80, 114, 111, 106, 101, 99, 116, 58, 32, 100, 101, 109, 111>>,
        \* 'My '
        <<77, 121, 32>>,
        \* '1. '
        <<49, 46, 32>>,
        \* '2. Acme'
        <<50, 46, 32, 65, 99, 109, 101>>,
        \* '\nBuilt a thing'
        <<10, 66, 117, 105, 108, 116, 32, 97, 32, 116, 104, 105, 110, 103>>,
        \* '\r\n  And more'
        <<13, 10, 32, 32, 65, 110, 100, 32, 109, 111, 114, 101>>
    >>

\* project names
NamePool ==
    <<  \* 'Acme Project'
        <<65, 99, 109, 101, 32, 80, 114, 111, 106, 101, 99, 116>>,
        \* ''
        <<>>,
        \* '  '
        <<32, 32>>,
        \* 'Acme'
        <<65, 99, 109, 101>>,
        \* '2. Acme'
        <<50, 46, 32, 65, 99, 109, 101>>
    >>

\* the texts of at most MaxTokens tokens of a pool
TextsOf(tokens) ==
    {Concat(ts) : ts \in UNION {[1..n -> {tokens[k] : k \in 1..Len(tokens)}] :
                                   n \in 0..MaxTokens}}

(***************************************************************************)
(* The documents handed to the renderer: a header of HeaderPool, and no    *)
(* section, one section of RenderPool, or one beside a companion in either *)
(* order.                                                                  *)
(***************************************************************************)
\* the sections of the documents
RenderPool ==
    <<
        \* 1: a summary with markup
        \* {"__t": "SummarySection", "items": [{"text": "<b>Hi</b> all"}]}
        Obj(<<<<<<95, 95, 116>>, Str(<<83, 117, 109, 109, 97, 114, 121, 83,
            101, 99, 116, 105, 111, 110>>)>>, <<<<105, 116, 101, 109,
            115>>, Arr(<<Obj(<<<<<<116, 101, 120, 116>>, Str(<<60, 98, 62,
            72, 105, 60, 47, 98, 62, 32, 97, 108, 108>>)>>>>)>>)>>>>),
        \* 2: an experience
        \* {"__t": "ExperienceSection", "enabled": true, "items": [{"position": "Engineer", "workplace": "Acme", "bullets": ["Shipped X"], "dateRange": {"fromMonth": 1, "fromYear": 2020, "isOngoing": true}}]}
        Obj(<<<<<<95, 95, 116>>, Str(<<69, 120, 112, 101, 114, 105, 101,
            110, 99, 101, 83, 101, 99, 116, 105, 111, 110>>)>>, <<<<101,
            110, 97, 98, 108, 101, 100>>, PyTrue>>, <<<<105, 116, 101, 109,
            115>>, Arr(<<Obj(<<<<<<112, 111, 115, 105, 116, 105, 111,
            110>>, Str(<<69, 110, 103, 105, 110, 101, 101, 114>>)>>,
            <<<<119, 111, 114, 107, 112, 108, 97, 99, 101>>, Str(<<65, 99,
            109, 101>>)>>, <<<<98, 117, 108, 108, 101, 116, 115>>,
            Arr(<<Str(<<83, 104, 105, 112, 112, 101, 100, 32, 88>>)>>)>>,
            <<<<100, 97, 116, 101, 82, 97, 110, 103, 101>>, Obj(<<<<<<102,
            114, 111, 109, 77, 111, 110, 116, 104>>, Num(1)>>, <<<<102,
            114, 111, 109, 89, 101, 97, 114>>, Num(2020)>>, <<<<105, 115,
            79, 110, 103, 111, 105, 110, 103>>, PyTrue>>>>)>>>>)>>)>>>>),
        \* 3: the same experience, disabled
        \* {"__t": "ExperienceSection", "enabled": false, "items": [{"position": "Engineer", "workplace": "Acme", "bullets": ["Shipped X"], "dateRange": {"fromMonth": 1, "fromYear": 2020, "isOngoing": true}}]}
        Obj(<<<<<<95, 95, 116>>, Str(<<69, 120, 112, 101, 114, 105, 101,
            110, 99, 101, 83, 101, 99, 116, 105, 111, 110>>)>>, <<<<101,
            110, 97, 98, 108, 101, 100>>, PyFalse>>, <<<<105, 116, 101,
            109, 115>>, Arr(<<Obj(<<<<<<112, 111, 115, 105, 116, 105, 111,
            110>>, Str(<<69, 110, 103, 105, 110, 101, 101, 114>>)>>,
            <<<<119, 111, 114, 107, 112, 108, 97, 99, 101>>, Str(<<65, 99,
            109, 101>>)>>, <<<<98, 117, 108, 108, 101, 116, 115>>,
            Arr(<<Str(<<83, 104, 105, 112, 112, 101, 100, 32, 88>>)>>)>>,
            <<<<100, 97, 116, 101, 82, 97, 110, 103, 101>>, Obj(<<<<<<102,
            114, 111, 109, 77, 111, 110, 116, 104>>, Num(1)>>, <<<<102,
            114, 111, 109, 89, 101, 97, 114>>, Num(2020)>>, <<<<105, 115,
            79, 110, 103, 111, 105, 110, 103>>, PyTrue>>>>)>>>>)>>)>>>>),
        \* 4: an education
        \* {"__t": "EducationSection", "items": [{"degree": "BSc", "institution": "MIT", "gpa": "3.9", "dateRange": {"fromMonth": 9, "fromYear": 2015, "toYear": 2019}}]}
        Obj(<<<<<<95, 95, 116>>, Str(<<69, 100, 117, 99, 97, 116, 105, 111,
            110, 83, 101, 99, 116, 105, 111, 110>>)>>, <<<<105, 116, 101,
            109, 115>>, Arr(<<Obj(<<<<<<100, 101, 103, 114, 101, 101>>,
            Str(<<66, 83, 99>>)>>, <<<<105, 110, 115, 116, 105, 116, 117,
            116, 105, 111, 110>>, Str(<<77, 73, 84>>)>>, <<<<103, 112,
            97>>, Str(<<51, 46, 57>>)>>, <<<<100, 97, 116, 101, 82, 97,
            110, 103, 101>>, Obj(<<<<<<102, 114, 111, 109, 77, 111, 110,
            116, 104>>, Num(9)>>, <<<<102, 114, 111, 109, 89, 101, 97,
            114>>, Num(2015)>>, <<<<116, 111, 89, 101, 97, 114>>,
            Num(2019)>>>>)>>>>)>>)>>>>),
        \* 5: skills
        \* {"__t": "TechnologySection", "items": [{"title": "Languages", "tags": ["Go", "Rust"]}, {"tags": ["Git"]}]}
        Obj(<<<<<<95, 95, 116>>, Str(<<84, 101, 99, 104, 110, 111, 108,
            111, 103, 121, 83, 101, 99, 116, 105, 111, 110>>)>>, <<<<105,
            116, 101, 109, 115>>, Arr(<<Obj(<<<<<<116, 105, 116, 108,
            101>>, Str(<<76, 97, 110, 103, 117, 97, 103, 101, 115>>)>>,
            <<<<116, 97, 103, 115>>, Arr(<<Str(<<71, 111>>), Str(<<82, 117,
            115, 116>>)>>)>>>>), Obj(<<<<<<116, 97, 103, 115>>,
            Arr(<<Str(<<71, 105, 116>>)>>)>>>>)>>)>>>>),
        \* 6: a project whose description starts with its name
        \* {"__t": "ProjectSection", "items": [{"projectName": "Acme Project", "description": "Acme Project\nBuilt a thing", "bullets": ["Fast"]}]}
        Obj(<<<<<<95, 95, 116>>, Str(<<80, 114, 111, 106, 101, 99, 116, 83,
            101, 99, 116, 105, 111, 110>>)>>, <<<<105, 116, 101, 109,
            115>>, Arr(<<Obj(<<<<<<112, 114, 111, 106, 101, 99, 116, 78,
            97, 109, 101>>, Str(<<65, 99, 109, 101, 32, 80, 114, 111, 106,
            101, 99, 116>>)>>, <<<<100, 101, 115, 99, 114, 105, 112, 116,
            105, 111, 110>>, Str(<<65, 99, 109, 101, 32, 80, 114, 111, 106,
            101, 99, 116, 10, 66, 117, 105, 108, 116, 32, 97, 32, 116, 104,
            105, 110, 103>>)>>, <<<<98, 117, 108, 108, 101, 116, 115>>,
            Arr(<<Str(<<70, 97, 115, 116>>)>>)>>>>)>>)>>>>),
        \* 7: languages
        \* {"__t": "LanguageSection", "items": [{"name": "French", "levelText": "Fluent"}, {"name": "Dutch"}]}
        Obj(<<<<<<95, 95, 116>>, Str(<<76, 97, 110, 103, 117, 97, 103, 101,
            83, 101, 99, 116, 105, 111, 110>>)>>, <<<<105, 116, 101, 109,
            115>>, Arr(<<Obj(<<<<<<110, 97, 109, 101>>, Str(<<70, 114, 101,
            110, 99, 104>>)>>, <<<<108, 101, 118, 101, 108, 84, 101, 120,
            116>>, Str(<<70, 108, 117, 101, 110, 116>>)>>>>),
            Obj(<<<<<<110, 97, 109, 101>>, Str(<<68, 117, 116, 99,
            104>>)>>>>)>>)>>>>),
        \* 8: a certificate
        \* {"__t": "CertificateSection", "items": [{"title": "CKA", "issuer": "CNCF"}]}
        Obj(<<<<<<95, 95, 116>>, Str(<<67, 101, 114, 116, 105, 102, 105,
            99, 97, 116, 101, 83, 101, 99, 116, 105, 111, 110>>)>>,
            <<<<105, 116, 101, 109, 115>>, Arr(<<Obj(<<<<<<116, 105, 116,
            108, 101>>, Str(<<67, 75, 65>>)>>, <<<<105, 115, 115, 117, 101,
            114>>, Str(<<67, 78, 67, 70>>)>>>>)>>)>>>>),
        \* 9: a section of an unrecognized tag, with a name
        \* {"__t": "CustomSection", "name": "Awards", "items": [{"title": "1. Prize", "text": "n Best paper", "bullets": ["2021"]}]}
        Obj(<<<<<<95, 95, 116>>, Str(<<67, 117, 115, 116, 111, 109, 83,
            101, 99, 116, 105, 111, 110>>)>>, <<<<110, 97, 109, 101>>,
            Str(<<65, 119, 97, 114, 100, 115>>)>>, <<<<105, 116, 101, 109,
            115>>, Arr(<<Obj(<<<<<<116, 105, 116, 108, 101>>, Str(<<49, 46,
            32, 80, 114, 105, 122, 101>>)>>, <<<<116, 101, 120, 116>>,
            Str(<<110, 32, 66, 101, 115, 116, 32, 112, 97, 112, 101,
            114>>)>>, <<<<98, 117, 108, 108, 101, 116, 115>>,
            Arr(<<Str(<<50, 48, 50, 49>>)>>)>>>>)>>)>>>>),
        \* 10: a section without a tag whose items carry tags
        \* {"items": [{"tags": ["Go"]}]}
        Obj(<<<<<<105, 116, 101, 109, 115>>, Arr(<<Obj(<<<<<<116, 97, 103,
            115>>, Arr(<<Str(<<71, 111>>)>>)>>>>)>>)>>>>),
        \* 11: an experience with an item that is no record
        \* {"__t": "ExperienceSection", "items": ["oops", {"position": "Engineer", "workplace": "Acme", "bullets": ["Shipped X"], "dateRange": {"fromMonth": 1, "fromYear": 2020, "isOngoing": true}}]}
        Obj(<<<<<<95, 95, 116>>, Str(<<69, 120, 112, 101, 114, 105, 101,
            110, 99, 101, 83, 101, 99, 116, 105, 111, 110>>)>>, <<<<105,
            116, 101, 109, 115>>, Arr(<<Str(<<111, 111, 112, 115>>),
            Obj(<<<<<<112, 111, 115, 105, 116, 105, 111, 110>>, Str(<<69,
            110, 103, 105, 110, 101, 101, 114>>)>>, <<<<119, 111, 114, 107,
            112, 108, 97, 99, 101>>, Str(<<65, 99, 109, 101>>)>>, <<<<98,
            117, 108, 108, 101, 116, 115>>, Arr(<<Str(<<83, 104, 105, 112,
            112, 101, 100, 32, 88>>)>>)>>, <<<<100, 97, 116, 101, 82, 97,
            110, 103, 101>>, Obj(<<<<<<102, 114, 111, 109, 77, 111, 110,
            116, 104>>, Num(1)>>, <<<<102, 114, 111, 109, 89, 101, 97,
            114>>, Num(2020)>>, <<<<105, 115, 79, 110, 103, 111, 105, 110,
            103>>, PyTrue>>>>)>>>>)>>)>>>>),
        \* 12: an experience with a month that is no number
        \* {"__t": "ExperienceSection", "items": [{"position": "Dev", "dateRange": {"fromMonth": "Jan", "fromYear": 2020}}, {"position": "Engineer", "workplace": "Acme", "bullets": ["Shipped X"], "dateRange": {"fromMonth": 1, "fromYear": 2020, "isOngoing": true}}]}
        Obj(<<<<<<95, 95, 116>>, Str(<<69, 120, 112, 101, 114, 105, 101,
            110, 99, 101, 83, 101, 99, 116, 105, 111, 110>>)>>, <<<<105,
            116, 101, 109, 115>>, Arr(<<Obj(<<<<<<112, 111, 115, 105, 116,
            105, 111, 110>>, Str(<<68, 101, 118>>)>>, <<<<100, 97, 116,
            101, 82, 97, 110, 103, 101>>, Obj(<<<<<<102, 114, 111, 109, 77,
            111, 110, 116, 104>>, Str(<<74, 97, 110>>)>>, <<<<102, 114,
            111, 109, 89, 101, 97, 114>>, Num(2020)>>>>)>>>>),
            Obj(<<<<<<112, 111, 115, 105, 116, 105, 111, 110>>, Str(<<69,
            110, 103, 105, 110, 101, 101, 114>>)>>, <<<<119, 111, 114, 107,
            112, 108, 97, 99, 101>>, Str(<<65, 99, 109, 101>>)>>, <<<<98,
            117, 108, 108, 101, 116, 115>>, Arr(<<Str(<<83, 104, 105, 112,
            112, 101, 100, 32, 88>>)>>)>>, <<<<100, 97, 116, 101, 82, 97,
            110, 103, 101>>, Obj(<<<<<<102, 114, 111, 109, 77, 111, 110,
            116, 104>>, Num(1)>>, <<<<102, 114, 111, 109, 89, 101, 97,
            114>>, Num(2020)>>, <<<<105, 115, 79, 110, 103, 111, 105, 110,
            103>>, PyTrue>>>>)>>>>)>>)>>>>),
        \* 13: skills with a tag that is no string
        \* {"__t": "TechnologySection", "items": [{"title": "Tools", "tags": ["Go", 5]}, {"tags": ["Git"]}]}
        Obj(<<<<<<95, 95, 116>>, Str(<<84, 101, 99, 104, 110, 111, 108,
            111, 103, 121, 83, 101, 99, 116, 105, 111, 110>>)>>, <<<<105,
            116, 101, 109, 115>>, Arr(<<Obj(<<<<<<116, 105, 116, 108,
            101>>, Str(<<84, 111, 111, 108, 115>>)>>, <<<<116, 97, 103,
            115>>, Arr(<<Str(<<71, 111>>), Num(5)>>)>>>>), Obj(<<<<<<116,
            97, 103, 115>>, Arr(<<Str(<<71, 105, 116>>)>>)>>>>)>>)>>>>),
        \* 14: an experience with a bullet that is no string
        \* {"__t": "ExperienceSection", "items": [{"position": "Dev", "bullets": [5]}, {"position": "Engineer", "workplace": "Acme", "bullets": ["Shipped X"], "dateRange": {"fromMonth": 1, "fromYear": 2020, "isOngoing": true}}]}
        Obj(<<<<<<95, 95, 116>>, Str(<<69, 120, 112, 101, 114, 105, 101,
            110, 99, 101, 83, 101, 99, 116, 105, 111, 110>>)>>, <<<<105,
            116, 101, 109, 115>>, Arr(<<Obj(<<<<<<112, 111, 115, 105, 116,
            105, 111, 110>>, Str(<<68, 101, 118>>)>>, <<<<98, 117, 108,
            108, 101, 116, 115>>, Arr(<<Num(5)>>)>>>>), Obj(<<<<<<112, 111,
            115, 105, 116, 105, 111, 110>>, Str(<<69, 110, 103, 105, 110,
            101, 101, 114>>)>>, <<<<119, 111, 114, 107, 112, 108, 97, 99,
            101>>, Str(<<65, 99, 109, 101>>)>>, <<<<98, 117, 108, 108, 101,
            116, 115>>, Arr(<<Str(<<83, 104, 105, 112, 112, 101, 100, 32,
            88>>)>>)>>, <<<<100, 97, 116, 101, 82, 97, 110, 103, 101>>,
            Obj(<<<<<<102, 114, 111, 109, 77, 111, 110, 116, 104>>,
            Num(1)>>, <<<<102, 114, 111, 109, 89, 101, 97, 114>>,
            Num(2020)>>, <<<<105, 115, 79, 110, 103, 111, 105, 110, 103>>,
            PyTrue>>>>)>>>>)>>)>>>>),
        \* 15: a disabled section with an item that is no record
        \* {"__t": "ExperienceSection", "enabled": false, "items": ["oops"]}
        Obj(<<<<<<95, 95, 116>>, Str(<<69, 120, 112, 101, 114, 105, 101,
            110, 99, 101, 83, 101, 99, 116, 105, 111, 110>>)>>, <<<<101,
            110, 97, 98, 108, 101, 100>>, PyFalse>>, <<<<105, 116, 101,
            109, 115>>, Arr(<<Str(<<111, 111, 112, 115>>)>>)>>>>),
        \* 16: a summary with an empty text
        \* {"__t": "SummarySection", "items": [{"text": ""}]}
        Obj(<<<<<<95, 95, 116>>, Str(<<83, 117, 109, 109, 97, 114, 121, 83,
            101, 99, 116, 105, 111, 110>>)>>, <<<<105, 116, 101, 109,
            115>>, Arr(<<Obj(<<<<<<116, 101, 120, 116>>,
            Str(<<>>)>>>>)>>)>>>>),
        \* 17: an experience without a position
        \* {"__t": "ExperienceSection", "items": [{"company": "Acme", "location": "Oslo"}]}
        Obj(<<<<<<95, 95, 116>>, Str(<<69, 120, 112, 101, 114, 105, 101,
            110, 99, 101, 83, 101, 99, 116, 105, 111, 110>>)>>, <<<<105,
            116, 101, 109, 115>>, Arr(<<Obj(<<<<<<99, 111, 109, 112, 97,
            110, 121>>, Str(<<65, 99, 109, 101>>)>>, <<<<108, 111, 99, 97,
            116, 105, 111, 110>>, Str(<<79, 115, 108, 111>>)>>>>)>>)>>>>),
        \* 18: a disabled section without a tag
        \* {"enabled": false, "name": "Hidden", "items": [{"text": "secret"}]}
        Obj(<<<<<<101, 110, 97, 98, 108, 101, 100>>, PyFalse>>, <<<<110,
            97, 109, 101>>, Str(<<72, 105, 100, 100, 101, 110>>)>>,
            <<<<105, 116, 101, 109, 115>>, Arr(<<Obj(<<<<<<116, 101, 120,
            116>>, Str(<<115, 101, 99, 114, 101, 116>>)>>>>)>>)>>>>),
        \* 19: an activity with a role and an organization
        \* {"__t": "ActivitySection", "items": [{"title": "Mentor", "workplace": "Club", "location": "Oslo"}]}
        Obj(<<<<<<95, 95, 116>>, Str(<<65, 99, 116, 105, 118, 105, 116,
            121, 83, 101, 99, 116, 105, 111, 110>>)>>, <<<<105, 116, 101,
            109, 115>>, Arr(<<Obj(<<<<<<116, 105, 116, 108, 101>>,
            Str(<<77, 101, 110, 116, 111, 114>>)>>, <<<<119, 111, 114, 107,
            112, 108, 97, 99, 101>>, Str(<<67, 108, 117, 98>>)>>, <<<<108,
            111, 99, 97, 116, 105, 111, 110>>, Str(<<79, 115, 108,
            111>>)>>>>)>>)>>>>),
        \* 20: a section of an unrecognized tag, with no name and no shape
        \* {"__t": "CustomSection", "items": [{"note": "x"}]}
        Obj(<<<<<<95, 95, 116>>, Str(<<67, 117, 115, 116, 111, 109, 83,
            101, 99, 116, 105, 111, 110>>)>>, <<<<105, 116, 101, 109,
            115>>, Arr(<<Obj(<<<<<<110, 111, 116, 101>>,
            Str(<<120>>)>>>>)>>)>>>>),
        \* 21: a section with no tag, no name and no shape
        \* {"items": [{"note": "x"}]}
        Obj(<<<<<<105, 116, 101, 109, 115>>, Arr(<<Obj(<<<<<<110, 111, 116,
            101>>, Str(<<120>>)>>>>)>>)>>>>),
        \* 22: a section with no tag, an empty name and no shape
        \* {"name": "", "items": [{"note": "x"}]}
        Obj(<<<<<<110, 97, 109, 101>>, Str(<<>>)>>, <<<<105, 116, 101, 109,
            115>>, Arr(<<Obj(<<<<<<110, 111, 116, 101>>,
            Str(<<120>>)>>>>)>>)>>>>),
        \* 23: an education with a degree alone
        \* {"__t": "EducationSection", "items": [{"degree": "MSc"}]}
        Obj(<<<<<<95, 95, 116>>, Str(<<69, 100, 117, 99, 97, 116, 105, 111,
            110, 83, 101, 99, 116, 105, 111, 110>>)>>, <<<<105, 116, 101,
            109, 115>>, Arr(<<Obj(<<<<<<100, 101, 103, 114, 101, 101>>,
            Str(<<77, 83, 99>>)>>>>)>>)>>>>)
    >>

\* the sections that stand beside another one
CompanionPool ==
    <<
        \* 1: a summary
        \* {"__t": "SummarySection", "items": [{"text": "Hello"}]}
        Obj(<<<<<<95, 95, 116>>, Str(<<83, 117, 109, 109, 97, 114, 121, 83,
            101, 99, 116, 105, 111, 110>>)>>, <<<<105, 116, 101, 109,
            115>>, Arr(<<Obj(<<<<<<116, 101, 120, 116>>, Str(<<72, 101,
            108, 108, 111>>)>>>>)>>)>>>>),
        \* 2: a disabled summary
        \* {"__t": "SummarySection", "enabled": false, "items": [{"text": "Hidden"}]}
        Obj(<<<<<<95, 95, 116>>, Str(<<83, 117, 109, 109, 97, 114, 121, 83,
            101, 99, 116, 105, 111, 110>>)>>, <<<<101, 110, 97, 98, 108,
            101, 100>>, PyFalse>>, <<<<105, 116, 101, 109, 115>>,
            Arr(<<Obj(<<<<<<116, 101, 120, 116>>, Str(<<72, 105, 100, 100,
            101, 110>>)>>>>)>>)>>>>)
    >>

\* the headers of the documents
HeaderPool ==
    <<
        \* 1: no header field
        \* {}
        EmptyObj,
        \* 2: a name, a title and contact fields
        \* {"name": "Ada Lovelace", "title": "Engineer", "email": "ada@x.org", "location": "London", "link": "ada"}
        Obj(<<<<<<110, 97, 109, 101>>, Str(<<65, 100, 97, 32, 76, 111, 118,
            101, 108, 97, 99, 101>>)>>, <<<<116, 105, 116, 108, 101>>,
            Str(<<69, 110, 103, 105, 110, 101, 101, 114>>)>>, <<<<101, 109,
            97, 105, 108>>, Str(<<97, 100, 97, 64, 120, 46, 111, 114,
            103>>)>>, <<<<108, 111, 99, 97, 116, 105, 111, 110>>, Str(<<76,
            111, 110, 100, 111, 110>>)>>, <<<<108, 105, 110, 107>>,
            Str(<<97, 100, 97>>)>>>>)
    >>

RenderSections == 1..(IF MaxSection < Len(RenderPool) THEN MaxSection ELSE Len(RenderPool))

SectionLists ==
    {<<>>}
    \cup {<<RenderPool[a]>> : a \in RenderSections}
    \cup {<<RenderPool[a], CompanionPool[b]>> :
              a \in RenderSections, b \in 1..Len(CompanionPool)}
    \cup {<<CompanionPool[b], RenderPool[a]>> :
              a \in RenderSections, b \in 1..Len(CompanionPool)}

MkDocument(header, sections) ==
    Obj(<< <<KeyHeader, header>>, <<KeySections, Arr(sections)>> >>)

RenderDocs ==
    {MkDocument(HeaderPool[h], ss) : h \in 1..Len(HeaderPool), ss \in SectionLists}

----------------------------------------------------------------------------
(***************************************************************************)
(* The state machine: the updater, the classifier and the date formatting. *)
(***************************************************************************)
VARIABLES
    file,     \* the content of the file at self.pdf_path
    data,     \* self.data
    out,      \* the content of the file at an output path other than pdf_path
    exc,      \* the exception the last operation ended with
    op,       \* the last operation
    before,   \* what the last operation found: [file, data, out]
    nops,     \* the operations performed
    section,  \* the section handed to _resolve_section_type
    resolved, \* what _resolve_section_type returned for it
    dateRange,  \* the date range handed to format_date_range
    formatted,  \* how format_date_range ended for it
    textFn,   \* the text function under study
    raw,      \* the text first handed to it
    projName, \* the project name handed to _project_description_display
    passes,   \* what the function returned, applied again to each result
    env,      \* sys.frozen, and whether weasyprint and reportlab can be imported
    module,   \* how the import of pdf_renderer ended, and its two flags
    heap,     \* the caller's document and the renderer's own copy, as objects
    self_data,  \* the object the renderer's self.data refers to
    atConstruct,  \* the caller's document when the renderer was constructed
    renders,  \* how the constructions and the renders ended, oldest first
    mutations,  \* the updates the caller made to its document
    loaded,   \* the updater's document before the first update
    args,     \* the arguments of the last update
    structure,  \* what analyze_structure returned last
    workers,  \* the CustomizationWorker threads started, oldest first
    worker,   \* the window's self.worker: a place in workers, 0 for None
    queue,    \* the signals emitted by the workers and not delivered yet
    customize_btn,  \* whether the Customize button is enabled
    cancel_btn,     \* whether the Cancel button is enabled
    cancelled,  \* the workers cancel_customization has run for
    saved     \* the calls of save_customized_resume, oldest first

codecVars == <<file, data, out, exc, op, before, nops>>

classifyVars == <<section, resolved>>

dateVars == <<dateRange, formatted>>

textVars == <<textFn, raw, projName, passes>>

renderVars == <<env, module, heap, self_data, atConstruct, renders, mutations>>

updateVars == <<loaded, args, structure>>

guiVars == <<workers, worker, queue, customize_btn, cancel_btn, cancelled, saved>>

vars == <<codecVars, classifyVars, dateVars, textVars, renderVars, updateVars, guiVars>>

\* a call not made yet
Unset == <<"unset", <<>>>>

\* the variables of the classifier and of the date formatting while the
\* model follows another part of the program
ClassifyIdle == section = Unset /\ resolved = Unset

\* format_date_range not called yet
NotFormatted == [exc |-> "unset", text |-> <<>>]

DateIdle == dateRange = Unset /\ formatted = NotFormatted

TextIdle == textFn = "idle" /\ raw = <<>> /\ projName = <<>> /\ passes = <<>>

\* pdf_renderer not imported yet
NotImported ==
    [exc |-> "unset", WEASYPRINT_AVAILABLE |-> FALSE, REPORTLAB_AVAILABLE |-> FALSE]

RenderIdle ==
    /\ env = [frozen |-> FALSE, weasyprint |-> FALSE, reportlab |-> FALSE]
    /\ module = NotImported
    /\ heap = [caller |-> None, renderer |-> None]
    /\ self_data = "none"
    /\ atConstruct = None
    /\ renders = <<>>
    /\ mutations = 0

\* no update made yet, nothing analyzed
UpdateIdle == loaded = None /\ args = Unset /\ structure = Unset

\* the window as constructed: no worker, Customize enabled, Cancel disabled
GuiIdle ==
    /\ workers = <<>>
    /\ worker = 0
    /\ queue = <<>>
    /\ customize_btn = TRUE
    /\ cancel_btn = FALSE
    /\ cancelled = {}
    /\ saved = <<>>

\* the variables of the parts of the program a behaviour does not follow
OthersIdle == UpdateIdle /\ GuiIdle

\* what an operation of the codec leaves alone
CodecFrame ==
    UNCHANGED <<classifyVars, dateVars, textVars, renderVars, updateVars, guiVars>>

\* no file at the output path
NoFile == <<>>

Snapshot == [file |-> file, data |-> data, out |-> out]

CodecInit ==
    /\ file \in {FilePool[f] : f \in Files}
    /\ data = None
    /\ out = NoFile
    /\ exc = NoExc
    /\ op = "init"
    /\ before = [file |-> <<>>, data |-> None, out |-> NoFile]
    /\ nops = 0

\* updater.extract_json_data()
Extract ==
    /\ nops < MaxOps
    /\ CodecFrame
    /\ LET r == ExtractJson(file)
       IN  /\ data' = IF r.exc = NoExc THEN r.doc ELSE data
           /\ exc' = r.exc
    /\ op' = "extract"
    /\ before' = Snapshot
    /\ nops' = nops + 1
    /\ UNCHANGED <<file, out>>

\* self.updater.data = copy.deepcopy(self.resume_data)
SetData(d) ==
    /\ nops < MaxOps
    /\ CodecFrame
    /\ data' = d
    /\ exc' = NoExc
    /\ op' = "set"
    /\ before' = Snapshot
    /\ nops' = nops + 1
    /\ UNCHANGED <<file, out>>

\* updater.save_pdf(output_path): with no output path the file itself is
\* written, else the file at the output path
Save(toSelf) ==
    /\ nops < MaxOps
    /\ CodecFrame
    /\ LET r == SavePdf(file, data)
       IN  /\ exc' = r.exc
           /\ file' = IF r.exc = NoExc /\ toSelf THEN r.content ELSE file
           /\ out' = IF r.exc = NoExc /\ ~toSelf THEN r.content ELSE out
    /\ op' = IF toSelf THEN "save" ELSE "save_as"
    /\ before' = Snapshot
    /\ nops' = nops + 1
    /\ UNCHANGED data

\* PDFResumeUpdater(output_path): a new updater on the file that was written
Open ==
    /\ nops < MaxOps
    /\ CodecFrame
    /\ out # NoFile
    /\ file' = out
    /\ data' = None
    /\ out' = NoFile
    /\ exc' = NoExc
    /\ op' = "open"
    /\ before' = Snapshot
    /\ nops' = nops + 1

CodecNext ==
    \/ Extract
    \/ \E i \in Docs : SetData(DocPool[i])
    \/ \E toSelf \in BOOLEAN : Save(toSelf)
    \/ Open

\* the updater while the model follows another part of the program
CodecIdle ==
    /\ file = <<>>
    /\ data = None
    /\ out = NoFile
    /\ exc = NoExc
    /\ op = "idle"
    /\ before = [file |-> <<>>, data |-> None, out |-> NoFile]
    /\ nops = 0

Init ==
    CodecInit /\ ClassifyIdle /\ DateIdle /\ TextIdle /\ RenderIdle /\ OthersIdle

Next == CodecNext

\* the updater: extract, load, save and reopen in any order
Spec == Init /\ [][Next]_vars

(***************************************************************************)
(* The classifier: a section is handed to _resolve_section_type once.      *)
(***************************************************************************)
ClassifyInit ==
    /\ \E t \in 1..Len(TagPool) : \E items \in ItemLists :
           section = MkSection(TagPool[t], items)
    /\ resolved = Unset

Resolve ==
    /\ resolved = Unset
    /\ resolved' = ResolveSectionType(section)
    /\ UNCHANGED <<section, codecVars, dateVars, textVars, renderVars, updateVars, guiVars>>

InitClassify ==
    CodecIdle /\ ClassifyInit /\ DateIdle /\ TextIdle /\ RenderIdle /\ OthersIdle

NextClassify == Resolve

SpecClassify == InitClassify /\ [][NextClassify]_vars

(***************************************************************************)
(* The date formatting: a date range is handed to format_date_range once.  *)
(***************************************************************************)
DateInit ==
    /\ \/ \E fm \in MonthVals, fy \in YearVals, tm \in EndMonthVals,
             ty \in EndYearVals, og \in OngoingVals :
              dateRange = MkRange(fm, fy, tm, ty, og)
       \/ dateRange = None
    /\ formatted = NotFormatted

Format ==
    /\ formatted = NotFormatted
    /\ formatted' = FormatDateRange(dateRange)
    /\ UNCHANGED <<dateRange, codecVars, classifyVars, textVars, renderVars, updateVars, guiVars>>

InitDate ==
    CodecIdle /\ ClassifyIdle /\ DateInit /\ TextIdle /\ RenderIdle /\ OthersIdle

NextDate == Format

SpecDate == InitDate /\ [][NextDate]_vars

(***************************************************************************)
(* The text functions: a text is handed to one of them, and what it        *)
(* returns is handed to it again.                                          *)
(***************************************************************************)
\* the applications of a function to its own result
MaxPasses == 2

TextInit ==
    /\ \/ textFn = "clean" /\ raw \in TextsOf(CleanTokens) /\ projName = <<>>
       \/ /\ textFn \in {"title", "paragraph"}
          /\ raw \in TextsOf(MarkerTokens)
          /\ projName = <<>>
       \/ /\ textFn = "project"
          /\ raw \in TextsOf(DescTokens)
          /\ \E k \in 1..Len(NamePool) : projName = NamePool[k]
    /\ passes = <<>>

\* the text the next application takes
Current == IF passes = <<>> THEN raw ELSE passes[Len(passes)]

TextFrame ==
    UNCHANGED <<textFn, raw, projName, codecVars, classifyVars, dateVars, renderVars,
                updateVars, guiVars>>

Clean ==
    /\ textFn = "clean"
    /\ Len(passes) < MaxPasses
    /\ passes' = Append(passes, CleanHtmlText(Current))
    /\ TextFrame

NormalizeTitle ==
    /\ textFn = "title"
    /\ Len(passes) < MaxPasses
    /\ passes' = Append(passes, NormalizeDisplayTitle(Current))
    /\ TextFrame

NormalizePara ==
    /\ textFn = "paragraph"
    /\ Len(passes) < MaxPasses
    /\ passes' = Append(passes, NormalizeParagraph(Current))
    /\ TextFrame

DescribeProject ==
    /\ textFn = "project"
    /\ passes = <<>>
    /\ passes' = <<ProjectDescriptionDisplay(raw, projName)>>
    /\ TextFrame

InitText ==
    CodecIdle /\ ClassifyIdle /\ DateIdle /\ TextInit /\ RenderIdle /\ OthersIdle

NextText == Clean \/ NormalizeTitle \/ NormalizePara \/ DescribeProject

SpecText == InitText /\ [][NextText]_vars

(***************************************************************************)
(* The renderer: the import of pdf_renderer, the construction of a         *)
(* PDFRenderer on the caller's document, render_pdf, and an update the     *)
(* caller makes to its own document.                                       *)
(***************************************************************************)
\* the renders and constructions a behaviour records
MaxRenders == 2

\* the updates the caller makes
MaxMutations == 1

\* the environments: sys.frozen, and which of the two libraries import
Envs == [frozen : BOOLEAN, weasyprint : BOOLEAN, reportlab : BOOLEAN]

\* the methods handed to render_pdf, "bogus" for an unknown one
Methods == {"auto", "weasyprint", "reportlab", "bogus"}

\* "New summary"
NewSummary == <<78, 101, 119, 32, 115, 117, 109, 109, 97, 114, 121>>

\* the summary item update_summary creates
\* {"id": "summary_item", "record": "SummaryItem", "text": text,
\*  "height": 130, "alignment": "left"}
SummaryItem(text) ==
    Obj(<<<<<<105, 100>>, Str(<<115, 117, 109, 109, 97, 114, 121, 95, 105,
        116, 101, 109>>)>>, <<<<114, 101, 99, 111, 114, 100>>, Str(<<83,
        117, 109, 109, 97, 114, 121, 73, 116, 101, 109>>)>>, <<<<116, 101,
        120, 116>>, Str(text)>>, <<<<104, 101, 105, 103, 104, 116>>,
        Num(130)>>, <<<<97, 108, 105, 103, 110, 109, 101, 110, 116>>,
        Str(<<108, 101, 102, 116>>)>>>>)

\* the summary section update_summary creates
NewSummarySection(text) ==
    Obj(<<<<<<95, 95, 116>>, Str(<<83, 117, 109, 109, 97, 114, 121, 83,
        101, 99, 116, 105, 111, 110>>)>>, <<<<110, 97, 109, 101>>,
        Str(<<>>)>>, <<<<114, 101, 99, 111, 114, 100>>, Str(<<83, 117, 109,
        109, 97, 114, 121, 83, 101, 99, 116, 105, 111, 110>>)>>, <<<<101,
        110, 97, 98, 108, 101, 100>>, PyTrue>>, <<<<104, 101, 105, 103,
        104, 116>>, Num(36)>>, <<<<99, 111, 108, 117, 109, 110>>, Num(0)>>,
        <<<<115, 104, 111, 119, 84, 105, 116, 108, 101>>, PyTrue>>,
        <<<<105, 116, 101, 109, 115>>, Arr(<<SummaryItem(text)>>)>>>>)

\* d with its sections replaced
WithSections(d, ss) == Obj(DictPut(d[2], KeySections, Arr(ss)))

\* update_summary(text) on the caller's document d: the text of the first
\* item of the first section tagged SummarySection, or a new item, or a
\* new section in front
UpdateSummary(d, text) ==
    LET ss == SectionsOf(d)
        hits == {n \in 1..Len(ss) : Get(ss[n], KeyT, None) = SummarySection}
        n == Least(hits)
        items == Get(ss[n], KeyItems, None)
        first == Obj(DictPut(items[2][1][2], KeyText, Str(text)))
    IN  IF hits = {} THEN WithSections(d, <<NewSummarySection(text)>> \o ss)
        ELSE IF Truthy(items)
        THEN WithSections(d, [ss EXCEPT ![n] =
                 Obj(DictPut(ss[n][2], KeyItems, Arr([items[2] EXCEPT ![1] = first])))])
        ELSE WithSections(d, [ss EXCEPT ![n] =
                 Obj(DictPut(ss[n][2], KeyItems, Arr(<<SummaryItem(text)>>)))])

\* the module after 'import pdf_renderer': the two flags, and the NameError
\* of 'ACCENT = colors.HexColor(...)' when reportlab did not import
ImportRenderer(e) ==
    IF e.reportlab
    THEN [exc |-> "none", WEASYPRINT_AVAILABLE |-> e.weasyprint,
          REPORTLAB_AVAILABLE |-> TRUE]
    ELSE [exc |-> "NameError", WEASYPRINT_AVAILABLE |-> e.weasyprint,
          REPORTLAB_AVAILABLE |-> FALSE]

\* the variant of the constructor that keeps the caller's object
InitDataShared(h) == [addr |-> "caller", heap |-> h]

\* self.data = copy.deepcopy(json_data): a new object, equal to the caller's
InitData(h) == [addr |-> "renderer", heap |-> [h EXCEPT !.renderer = h.caller]]

\* the loop of __init__ over the sections: the exception it ends with
InitExc(d) ==
    LET ss == SectionsOf(d)
        hits == {n \in 1..Len(ss) :
                    \/ ss[n][1] # "obj"
                    \/ /\ Get(ss[n], KeyT, None) = SummarySection
                       /\ Truthy(Get(ss[n], KeyItems, None))}
        s == ss[Least(hits)]
        items == Get(s, KeyItems, None)
    IN  IF hits = {} THEN "none"
        ELSE IF s[1] # "obj" THEN "AttributeError"
        ELSE IF items[1] = "obj" THEN "KeyError"
        ELSE IF items[1] = "arr" /\ items[2][1][1] = "obj" THEN "none"
        ELSE "AttributeError"

\* what a construction or a render leaves in the record
Entry(step, method, backend, r) ==
    [step |-> step, method |-> method, backend |-> backend,
     exc |-> r.exc, lines |-> r.lines]

\* the backend render_pdf goes to: [exc, backend]
ChooseBackend(method, frozen, m) ==
    IF method = "auto"
    THEN IF frozen /\ m.REPORTLAB_AVAILABLE
         THEN [exc |-> "none", backend |-> "reportlab"]
         ELSE IF m.WEASYPRINT_AVAILABLE
         THEN [exc |-> "none", backend |-> "weasyprint"]
         ELSE IF m.REPORTLAB_AVAILABLE
         THEN [exc |-> "none", backend |-> "reportlab"]
         ELSE [exc |-> "ImportError", backend |-> "none"]
    ELSE IF method \in {"weasyprint", "reportlab"}
    THEN [exc |-> "none", backend |-> method]
    ELSE [exc |-> "ValueError", backend |-> "none"]

\* render_with_weasyprint on the data d
RenderWithWeasyprint(d, m) ==
    IF ~m.WEASYPRINT_AVAILABLE THEN Err("ImportError") ELSE GenerateHtml(d)

\* render_pdf(output_path, method) on the data d
RenderPdf(d, method, frozen, m) ==
    LET b == ChooseBackend(method, frozen, m)
    IN  IF b.exc # "none" THEN Entry("render", method, "none", Err(b.exc))
        ELSE IF b.backend = "weasyprint"
        THEN Entry("render", method, "weasyprint", RenderWithWeasyprint(d, m))
        ELSE IF ~m.REPORTLAB_AVAILABLE
        THEN Entry("render", method, "reportlab", Err("ImportError"))
        ELSE Entry("render", method, "reportlab", RenderWithReportlab(d))

\* the renderer's data
RendererData == heap[self_data]

\* what an operation on the renderer leaves alone
RenderFrame ==
    UNCHANGED <<codecVars, classifyVars, dateVars, textVars, updateVars, guiVars>>

\* the entry beside the number of updates the caller had made by then
Stamp(entry) == [at |-> mutations] @@ entry

\* from pdf_renderer import PDFRenderer
Import ==
    /\ module = NotImported
    /\ module' = ImportRenderer(env)
    /\ renders' = IF module'.exc = "none" THEN renders
                  ELSE Append(renders,
                              Stamp(Entry("import", "none", "none", Err(module'.exc))))
    /\ UNCHANGED <<env, heap, self_data, atConstruct, mutations>>
    /\ RenderFrame

\* PDFRenderer(json_data) on the caller's document
Construct ==
    /\ module.exc = "none"
    /\ self_data = "none"
    /\ Len(renders) < MaxRenders
    /\ LET made == InitData(heap)
           e == InitExc(made.heap[made.addr])
       IN  IF e = "none"
           THEN /\ heap' = made.heap
                /\ self_data' = made.addr
                /\ atConstruct' = heap.caller
                /\ UNCHANGED renders
           ELSE /\ renders' = Append(renders,
                                      Stamp(Entry("construct", "none", "none", Err(e))))
                /\ UNCHANGED <<heap, self_data, atConstruct>>
    /\ UNCHANGED <<env, module, mutations>>
    /\ RenderFrame

\* renderer.render_pdf(output_path, method)
Render(method) ==
    /\ self_data # "none"
    /\ Len(renders) < MaxRenders
    /\ renders' = Append(renders,
                         Stamp(RenderPdf(RendererData, method, env.frozen, module)))
    /\ UNCHANGED <<env, module, heap, self_data, atConstruct, mutations>>
    /\ RenderFrame

\* the caller's update_summary(text) on its own document
MutateCaller ==
    /\ mutations < MaxMutations
    /\ heap' = [heap EXCEPT !.caller = UpdateSummary(heap.caller, NewSummary)]
    /\ mutations' = mutations + 1
    /\ UNCHANGED <<env, module, self_data, atConstruct, renders>>
    /\ RenderFrame

\* both libraries installed, run from source
RenderEnv == [frozen |-> FALSE, weasyprint |-> TRUE, reportlab |-> TRUE]

RenderInit ==
    /\ env = RenderEnv
    /\ module = NotImported
    /\ \E d \in RenderDocs : heap = [caller |-> d, renderer |-> None]
    /\ self_data = "none"
    /\ atConstruct = None
    /\ renders = <<>>
    /\ mutations = 0

InitRender ==
    CodecIdle /\ ClassifyIdle /\ DateIdle /\ TextIdle /\ RenderInit /\ OthersIdle

NextRender ==
    \/ Import
    \/ Construct
    \/ \E method \in {"weasyprint", "reportlab"} : Render(method)
    \/ MutateCaller

SpecRender == InitRender /\ [][NextRender]_vars

\* the documents the choice of the backend is followed on
BackendDocs == {MkDocument(HeaderPool[2], <<RenderPool[a]>>) : a \in {1, 2}}

\* the choice of the backend: every environment and every method
BackendInit ==
    /\ env \in Envs
    /\ module = NotImported
    /\ \E d \in BackendDocs : heap = [caller |-> d, renderer |-> None]
    /\ self_data = "none"
    /\ atConstruct = None
    /\ renders = <<>>
    /\ mutations = 0

InitBackend ==
    CodecIdle /\ ClassifyIdle /\ DateIdle /\ TextIdle /\ BackendInit /\ OthersIdle

NextBackend ==
    \/ Import
    \/ Construct
    \/ \E method \in Methods : Render(method)

SpecBackend == InitBackend /\ [][NextBackend]_vars

----------------------------------------------------------------------------
(***************************************************************************)
(* The updates of the document: update_header, update_summary,             *)
(* add_experience and update_skills on the updater's data, the header      *)
(* update of the command line, and analyze_structure.                      *)
(***************************************************************************)
\* the calls a behaviour makes on the updater's document
MaxCalls == 3

\* "phone"
KeyPhone == <<112, 104, 111, 110, 101>>

\* "type"
KeyType == <<116, 121, 112, 101>>

\* "items_count"
KeyItemsCount == <<105, 116, 101, 109, 115, 95, 99, 111, 117, 110, 116>>

\* "Unknown"
UnknownType == <<85, 110, 107, 110, 111, 119, 110>>

\* "exp_"
ExpPrefix == <<101, 120, 112, 95>>

\* "skill_"
SkillPrefix == <<115, 107, 105, 108, 108, 95>>

\* the fields update_header looks for in its keyword arguments, in its order
HeaderFields == <<KeyName, KeyTitle, KeyEmail, KeyPhone, KeyLocation, KeyLink>>

\* a result of an update: the exception it ended with and the document
Updated(d) == [exc |-> NoExc, doc |-> d]

RECURSIVE SetSupplied(_, _, _)
\* the six 'if k in kwargs: header[k] = kwargs[k]' from the n-th on
SetSupplied(pairs, kwargs, n) ==
    IF n > Len(HeaderFields) THEN pairs
    ELSE SetSupplied(IF Has(kwargs, HeaderFields[n])
                     THEN DictPut(pairs, HeaderFields[n],
                                  Get(kwargs, HeaderFields[n], None))
                     ELSE pairs,
                     kwargs, n + 1)

\* update_header(**kwargs) on the document d: the header, created empty
\* when the document has none, with the fields among the keyword arguments
UpdateHeader(d, kwargs) ==
    Updated(Obj(DictPut(d[2], KeyHeader,
                        Obj(SetSupplied(HeaderOf(d)[2], kwargs, 1)))))

\* the keyword arguments main hands to update_header: all six, each the
\* value of its option, None for an option that was not given
MainKwargs(options) ==
    Obj([n \in 1..Len(HeaderFields) |->
            <<HeaderFields[n], Get(options, HeaderFields[n], None)>>])

\* main with --update-header and the options given
MainUpdateHeader(d, options) == UpdateHeader(d, MainKwargs(options))

\* the first section of ss tagged t, 0 when there is none
FirstTagged(ss, t) ==
    LET hits == {n \in 1..Len(ss) : Get(ss[n], KeyT, None) = t}
    IN  IF hits = {} THEN 0 ELSE Least(hits)

\* the section sec with its items replaced
WithItems(sec, items) == Obj(DictPut(sec[2], KeyItems, Arr(items)))

\* the experience section add_experience creates
NewExperienceSection ==
    Obj(<<<<<<95, 95, 116>>, Str(<<69, 120, 112, 101, 114, 105, 101, 110,
        99, 101, 83, 101, 99, 116, 105, 111, 110>>)>>, <<<<110, 97, 109,
        101>>, Str(<<>>)>>, <<<<114, 101, 99, 111, 114, 100>>, Str(<<69,
        120, 112, 101, 114, 105, 101, 110, 99, 101, 83, 101, 99, 116, 105,
        111, 110>>)>>, <<<<101, 110, 97, 98, 108, 101, 100>>, PyTrue>>,
        <<<<104, 101, 105, 103, 104, 116>>, Num(36)>>, <<<<99, 111, 108,
        117, 109, 110>>, Num(0)>>, <<<<115, 104, 111, 119, 67, 111, 109,
        112, 97, 110, 121, 76, 111, 103, 111, 115>>, PyFalse>>, <<<<116,
        105, 109, 101, 108, 105, 110, 101, 87, 105, 100, 116, 104>>,
        Num(136)>>, <<<<105, 116, 101, 109, 115>>, Arr(<<>>)>>>>)

\* the item add_experience creates from its arguments a, in a section that
\* holds n items
ExperienceItem(a, n) ==
    Obj(<<<<<<105, 100>>, Str(ExpPrefix \o IntStr(n))>>, <<<<114, 101, 99,
        111, 114, 100>>, Str(<<69, 120, 112, 101, 114, 105, 101, 110, 99,
        101, 73, 116, 101, 109>>)>>, <<<<97, 108, 105, 103, 110, 109, 101,
        110, 116>>, Str(<<108, 101, 102, 116>>)>>, <<<<112, 111, 115, 105,
        116, 105, 111, 110>>, a.position>>, <<<<119, 111, 114, 107, 112,
        108, 97, 99, 101>>, a.company>>, <<<<108, 111, 99, 97, 116, 105,
        111, 110>>, a.location>>, <<<<100, 97, 116, 101, 82, 97, 110, 103,
        101>>, Obj(<<<<<<114, 101, 99, 111, 114, 100>>, Str(<<68, 97, 116,
        101, 82, 97, 110, 103, 101>>)>>, <<<<102, 114, 111, 109, 77, 111,
        110, 116, 104>>, a.from_month>>, <<<<102, 114, 111, 109, 89, 101,
        97, 114>>, a.from_year>>, <<<<116, 111, 77, 111, 110, 116, 104>>,
        a.to_month>>, <<<<116, 111, 89, 101, 97, 114>>, a.to_year>>,
        <<<<105, 115, 79, 110, 103, 111, 105, 110, 103>>, a.is_ongoing>>,
        <<<<111, 110, 103, 111, 105, 110, 103, 84, 101, 120, 116>>,
        Str(<<>>)>>>>)>>, <<<<98, 117, 108, 108, 101, 116, 115>>,
        Or(a.bullets, Arr(<<>>))>>, <<<<115, 104, 111, 119, 66, 117, 108,
        108, 101, 116, 115>>, PyTrue>>, <<<<115, 104, 111, 119, 67, 111,
        109, 112, 97, 110, 121>>, PyTrue>>, <<<<115, 104, 111, 119, 68, 97,
        116, 101, 82, 97, 110, 103, 101>>, PyTrue>>, <<<<115, 104, 111,
        119, 68, 101, 115, 99, 114, 105, 112, 116, 105, 111, 110>>,
        PyFalse>>, <<<<115, 104, 111, 119, 76, 105, 110, 107>>, PyFalse>>,
        <<<<115, 104, 111, 119, 76, 111, 99, 97, 116, 105, 111, 110>>,
        PyTrue>>, <<<<115, 104, 111, 119, 84, 105, 116, 108, 101>>,
        PyTrue>>, <<<<116, 97, 98, 108, 101>>, Obj(<<<<<<114, 101, 99, 111,
        114, 100>>, Str(<<84, 97, 98, 108, 101, 73, 116, 101, 109>>)>>,
        <<<<99, 111, 108, 115>>, Num(2)>>, <<<<114, 111, 119, 115>>,
        Arr(<<Arr(<<Str(<<60, 98, 62, 80, 114, 111, 106, 101, 99, 116, 32,
        110, 97, 109, 101, 60, 47, 98, 62>>), Str(<<60, 98, 62, 68, 101,
        115, 99, 114, 105, 112, 116, 105, 111, 110, 60, 47, 98, 62>>)>>),
        Arr(<<Str(<<>>), Str(<<>>)>>)>>)>>>>)>>, <<<<104, 101, 105, 103,
        104, 116>>, Num(243)>>>>)

\* add_experience(...) with the arguments a on the document d: a new item
\* after the items of the first section tagged ExperienceSection, a new
\* section after the others when no section is tagged so; the KeyError of
\* exp_section["items"] when the section found has no items
AddExperience(d, a) ==
    LET ss == SectionsOf(d)
        n == FirstTagged(ss, ExperienceSection)
        all == IF n = 0 THEN Append(ss, NewExperienceSection) ELSE ss
        m == IF n = 0 THEN Len(all) ELSE n
        items == ItemsOf(all[m])
    IN  IF ~Has(all[m], KeyItems)
        THEN [exc |-> Raise("KeyError", KeyItems), doc |-> d]
        ELSE Updated(WithSections(d, [all EXCEPT ![m] =
                 WithItems(all[m], Append(items, ExperienceItem(a, Len(items))))]))

\* the skills section update_skills creates
NewTechnologySection ==
    Obj(<<<<<<95, 95, 116>>, Str(<<84, 101, 99, 104, 110, 111, 108, 111,
        103, 121, 83, 101, 99, 116, 105, 111, 110>>)>>, <<<<110, 97, 109,
        101>>, Str(<<>>)>>, <<<<114, 101, 99, 111, 114, 100>>, Str(<<84,
        101, 99, 104, 110, 111, 108, 111, 103, 121, 83, 101, 99, 116, 105,
        111, 110>>)>>, <<<<101, 110, 97, 98, 108, 101, 100>>, PyTrue>>,
        <<<<104, 101, 105, 103, 104, 116>>, Num(36)>>, <<<<99, 111, 108,
        117, 109, 110>>, Num(1)>>, <<<<99, 111, 109, 112, 97, 99, 116, 77,
        111, 100, 101>>, PyFalse>>, <<<<115, 117, 114, 114, 111, 117, 110,
        100, 105, 110, 103, 66, 111, 114, 100, 101, 114>>, PyFalse>>,
        <<<<105, 116, 101, 109, 115>>, Arr(<<>>)>>>>)

\* the item update_skills creates for the group title: tags, the n-th
TechnologyItem(title, tags, n) ==
    Obj(<<<<<<105, 100>>, Str(SkillPrefix \o IntStr(n - 1))>>, <<<<114,
        101, 99, 111, 114, 100>>, Str(<<84, 101, 99, 104, 110, 111, 108,
        111, 103, 121, 73, 116, 101, 109>>)>>, <<<<116, 105, 116, 108,
        101>>, Str(title)>>, <<<<100, 101, 115, 99, 114, 105, 112, 116,
        105, 111, 110>>, Str(<<>>)>>, <<<<116, 97, 103, 115>>, tags>>,
        <<<<115, 104, 111, 119, 84, 105, 116, 108, 101>>, PyFalse>>,
        <<<<104, 101, 105, 103, 104, 116>>, Num(163)>>>>)

\* the variant of update_skills that appends the section it creates or
\* found after the others, dropping the one it found
UpdateSkillsMoved(d, skill_groups) ==
    LET ss == SectionsOf(d)
        n == FirstTagged(ss, TechnologySection)
        found == IF n = 0 THEN NewTechnologySection ELSE ss[n]
        rest == IF n = 0 THEN ss
                ELSE SubSeq(ss, 1, n - 1) \o SubSeq(ss, n + 1, Len(ss))
        groups == skill_groups[2]
    IN  Updated(WithSections(d, Append(rest,
            WithItems(found, [g \in 1..Len(groups) |->
                TechnologyItem(groups[g][1], groups[g][2], g)]))))

\* update_skills(skill_groups) on the document d: the items of the first
\* section tagged TechnologySection, or of a new section after the others,
\* replaced by one item for each group
UpdateSkills(d, skill_groups) ==
    LET ss == SectionsOf(d)
        n == FirstTagged(ss, TechnologySection)
        all == IF n = 0 THEN Append(ss, NewTechnologySection) ELSE ss
        m == IF n = 0 THEN Len(all) ELSE n
        groups == skill_groups[2]
    IN  Updated(WithSections(d, [all EXCEPT ![m] =
            WithItems(all[m], [g \in 1..Len(groups) |->
                TechnologyItem(groups[g][1], groups[g][2], g)])]))

\* what analyze_structure reports for a section
SectionInfo(sec) ==
    Obj(<< <<KeyType, Get(sec, KeyT, Str(UnknownType))>>,
           <<KeyName, Get(sec, KeyName, Str(<<>>))>>,
           <<KeyEnabled, Get(sec, KeyEnabled, PyFalse)>>,
           <<KeyItemsCount, Num(Len(Get(sec, KeyItems, Arr(<<>>))[2]))>> >>)

\* analyze_structure() on the document d
AnalyzeStructure(d) ==
    Obj(<< <<KeyHeader, HeaderOf(d)>>,
           <<KeySections, Arr([n \in 1..Len(SectionsOf(d)) |->
                                  SectionInfo(SectionsOf(d)[n])])>> >>)

\* the documents the updates are followed on
UpdatePool ==
    <<
        \* 1: a header with a field no update names, a top-level key no update names, and four tagged sections, two of them disabled
        \* {"header": {"name": "Ada", "title": "Engineer", "phone": "555", "photo": "p.png"}, "meta": {"v": 1}, "sections": [{"__t": "SummarySection", "name": "About", "theme": "dark", "items": [{"text": "Hello", "color": "red"}]}, {"__t": "ExperienceSection", "enabled": false, "items": [{"position": "Dev", "workplace": "Acme", "x": 1}]}, {"__t": "TechnologySection", "items": [{"title": "Langs", "tags": ["Go"], "x": 1}]}, {"__t": "CustomSection", "name": "Awards", "enabled": false, "items": [{"note": "x"}]}]}
        Obj(<<<<<<104, 101, 97, 100, 101, 114>>, Obj(<<<<<<110, 97, 109,
            101>>, Str(<<65, 100, 97>>)>>, <<<<116, 105, 116, 108, 101>>,
            Str(<<69, 110, 103, 105, 110, 101, 101, 114>>)>>, <<<<112, 104,
            111, 110, 101>>, Str(<<53, 53, 53>>)>>, <<<<112, 104, 111, 116,
            111>>, Str(<<112, 46, 112, 110, 103>>)>>>>)>>, <<<<109, 101,
            116, 97>>, Obj(<<<<<<118>>, Num(1)>>>>)>>, <<<<115, 101, 99,
            116, 105, 111, 110, 115>>, Arr(<<Obj(<<<<<<95, 95, 116>>,
            Str(<<83, 117, 109, 109, 97, 114, 121, 83, 101, 99, 116, 105,
            111, 110>>)>>, <<<<110, 97, 109, 101>>, Str(<<65, 98, 111, 117,
            116>>)>>, <<<<116, 104, 101, 109, 101>>, Str(<<100, 97, 114,
            107>>)>>, <<<<105, 116, 101, 109, 115>>, Arr(<<Obj(<<<<<<116,
            101, 120, 116>>, Str(<<72, 101, 108, 108, 111>>)>>, <<<<99,
            111, 108, 111, 114>>, Str(<<114, 101, 100>>)>>>>)>>)>>>>),
            Obj(<<<<<<95, 95, 116>>, Str(<<69, 120, 112, 101, 114, 105,
            101, 110, 99, 101, 83, 101, 99, 116, 105, 111, 110>>)>>,
            <<<<101, 110, 97, 98, 108, 101, 100>>, PyFalse>>, <<<<105, 116,
            101, 109, 115>>, Arr(<<Obj(<<<<<<112, 111, 115, 105, 116, 105,
            111, 110>>, Str(<<68, 101, 118>>)>>, <<<<119, 111, 114, 107,
            112, 108, 97, 99, 101>>, Str(<<65, 99, 109, 101>>)>>,
            <<<<120>>, Num(1)>>>>)>>)>>>>), Obj(<<<<<<95, 95, 116>>,
            Str(<<84, 101, 99, 104, 110, 111, 108, 111, 103, 121, 83, 101,
            99, 116, 105, 111, 110>>)>>, <<<<105, 116, 101, 109, 115>>,
            Arr(<<Obj(<<<<<<116, 105, 116, 108, 101>>, Str(<<76, 97, 110,
            103, 115>>)>>, <<<<116, 97, 103, 115>>, Arr(<<Str(<<71,
            111>>)>>)>>, <<<<120>>, Num(1)>>>>)>>)>>>>), Obj(<<<<<<95, 95,
            116>>, Str(<<67, 117, 115, 116, 111, 109, 83, 101, 99, 116,
            105, 111, 110>>)>>, <<<<110, 97, 109, 101>>, Str(<<65, 119, 97,
            114, 100, 115>>)>>, <<<<101, 110, 97, 98, 108, 101, 100>>,
            PyFalse>>, <<<<105, 116, 101, 109, 115>>, Arr(<<Obj(<<<<<<110,
            111, 116, 101>>, Str(<<120>>)>>>>)>>)>>>>)>>)>>>>),
        \* 2: a summary that has lost its tag, with no enabled key
        \* {"header": {}, "sections": [{"items": [{"text": "Old"}]}]}
        Obj(<<<<<<104, 101, 97, 100, 101, 114>>, EmptyObj>>, <<<<115, 101,
            99, 116, 105, 111, 110, 115>>, Arr(<<Obj(<<<<<<105, 116, 101,
            109, 115>>, Arr(<<Obj(<<<<<<116, 101, 120, 116>>, Str(<<79,
            108, 100>>)>>>>)>>)>>>>)>>)>>>>),
        \* 3: two tagged summaries, the first without items, and an experience section without an items key
        \* {"header": {"name": "Ada"}, "sections": [{"__t": "SummarySection", "items": []}, {"__t": "SummarySection", "enabled": true, "items": [{"text": "Two"}]}, {"__t": "ExperienceSection", "name": "Work"}]}
        Obj(<<<<<<104, 101, 97, 100, 101, 114>>, Obj(<<<<<<110, 97, 109,
            101>>, Str(<<65, 100, 97>>)>>>>)>>, <<<<115, 101, 99, 116, 105,
            111, 110, 115>>, Arr(<<Obj(<<<<<<95, 95, 116>>, Str(<<83, 117,
            109, 109, 97, 114, 121, 83, 101, 99, 116, 105, 111, 110>>)>>,
            <<<<105, 116, 101, 109, 115>>, Arr(<<>>)>>>>), Obj(<<<<<<95,
            95, 116>>, Str(<<83, 117, 109, 109, 97, 114, 121, 83, 101, 99,
            116, 105, 111, 110>>)>>, <<<<101, 110, 97, 98, 108, 101, 100>>,
            PyTrue>>, <<<<105, 116, 101, 109, 115>>, Arr(<<Obj(<<<<<<116,
            101, 120, 116>>, Str(<<84, 119, 111>>)>>>>)>>)>>>>),
            Obj(<<<<<<95, 95, 116>>, Str(<<69, 120, 112, 101, 114, 105,
            101, 110, 99, 101, 83, 101, 99, 116, 105, 111, 110>>)>>,
            <<<<110, 97, 109, 101>>, Str(<<87, 111, 114,
            107>>)>>>>)>>)>>>>),
        \* 4: no sections key
        \* {"header": {"name": "Ada", "email": "ada@x.org", "link": "ada"}}
        Obj(<<<<<<104, 101, 97, 100, 101, 114>>, Obj(<<<<<<110, 97, 109,
            101>>, Str(<<65, 100, 97>>)>>, <<<<101, 109, 97, 105, 108>>,
            Str(<<97, 100, 97, 64, 120, 46, 111, 114, 103>>)>>, <<<<108,
            105, 110, 107>>, Str(<<97, 100, 97>>)>>>>)>>>>),
        \* 5: no header key, two skills sections
        \* {"sections": [{"__t": "TechnologySection", "enabled": false, "items": [{"title": "A", "tags": ["C"]}]}, {"__t": "TechnologySection", "items": [{"title": "B", "tags": ["D"]}]}]}
        Obj(<<<<<<115, 101, 99, 116, 105, 111, 110, 115>>,
            Arr(<<Obj(<<<<<<95, 95, 116>>, Str(<<84, 101, 99, 104, 110,
            111, 108, 111, 103, 121, 83, 101, 99, 116, 105, 111, 110>>)>>,
            <<<<101, 110, 97, 98, 108, 101, 100>>, PyFalse>>, <<<<105, 116,
            101, 109, 115>>, Arr(<<Obj(<<<<<<116, 105, 116, 108, 101>>,
            Str(<<65>>)>>, <<<<116, 97, 103, 115>>,
            Arr(<<Str(<<67>>)>>)>>>>)>>)>>>>), Obj(<<<<<<95, 95, 116>>,
            Str(<<84, 101, 99, 104, 110, 111, 108, 111, 103, 121, 83, 101,
            99, 116, 105, 111, 110>>)>>, <<<<105, 116, 101, 109, 115>>,
            Arr(<<Obj(<<<<<<116, 105, 116, 108, 101>>, Str(<<66>>)>>,
            <<<<116, 97, 103, 115>>,
            Arr(<<Str(<<68>>)>>)>>>>)>>)>>>>)>>)>>>>)
    >>

\* the fields handed to update_header, and the options of the command line
KwargsPool ==
    <<
        \* 1: a name
        \* {"name": "Bob"}
        Obj(<<<<<<110, 97, 109, 101>>, Str(<<66, 111, 98>>)>>>>),
        \* 2: a title and a phone
        \* {"title": "CTO", "phone": "777"}
        Obj(<<<<<<116, 105, 116, 108, 101>>, Str(<<67, 84, 79>>)>>,
            <<<<112, 104, 111, 110, 101>>, Str(<<55, 55, 55>>)>>>>),
        \* 3: nothing
        \* {}
        EmptyObj
    >>

\* the texts handed to update_summary
TextPool ==
    <<
        \* 1: New summary
        \* "New summary"
        (<<78, 101, 119, 32, 115, 117, 109, 109, 97, 114, 121>>),
        \* 2: Brief
        \* "Brief"
        (<<66, 114, 105, 101, 102>>)
    >>

\* the arguments handed to add_experience
ExperiencePool ==
    <<
        \* 1: {"position": "Lead", "company": "Initech", "location": "Paris", "from_month": 1, "from_year": 2020, "to_month": null, "to_year": null, "is_ongoing": true, "bullets": null}
        [position |-> Str(<<76, 101, 97, 100>>),
         company |-> Str(<<73, 110, 105, 116, 101, 99, 104>>),
         location |-> Str(<<80, 97, 114, 105, 115>>),
         from_month |-> Num(1),
         from_year |-> Num(2020),
         to_month |-> None,
         to_year |-> None,
         is_ongoing |-> PyTrue,
         bullets |-> None],
        \* 2: {"position": "Dev", "company": "Hooli", "location": "Rome", "from_month": 3, "from_year": 2018, "to_month": 12, "to_year": 2019, "is_ongoing": false, "bullets": ["Led team"]}
        [position |-> Str(<<68, 101, 118>>),
         company |-> Str(<<72, 111, 111, 108, 105>>),
         location |-> Str(<<82, 111, 109, 101>>),
         from_month |-> Num(3),
         from_year |-> Num(2018),
         to_month |-> Num(12),
         to_year |-> Num(2019),
         is_ongoing |-> PyFalse,
         bullets |-> Arr(<<Str(<<76, 101, 100, 32, 116, 101, 97, 109>>)>>)]
    >>

\* the groups handed to update_skills
SkillsPool ==
    <<
        \* 1: one group
        \* {"Languages": ["Python", "Go"]}
        Obj(<<<<<<76, 97, 110, 103, 117, 97, 103, 101, 115>>,
            Arr(<<Str(<<80, 121, 116, 104, 111, 110>>), Str(<<71,
            111>>)>>)>>>>),
        \* 2: no group
        \* {}
        EmptyObj
    >>

UpdateDocs == 1..Len(UpdatePool)

\* an updater whose data was set from a document; nothing of the file is
\* followed
UpdateInit ==
    /\ file = <<>>
    /\ \E i \in UpdateDocs : data = UpdatePool[i]
    /\ out = NoFile
    /\ exc = NoExc
    /\ op = "init"
    /\ before = [file |-> <<>>, data |-> None, out |-> NoFile]
    /\ nops = 0
    /\ loaded = data
    /\ args = Unset
    /\ structure = Unset

\* what a call on the updater's document leaves alone
UpdateFrame ==
    UNCHANGED <<file, out, loaded, classifyVars, dateVars, textVars, renderVars, guiVars>>

\* the call named method with the arguments a, ending as r: the data is
\* there, so the extraction at the top of the method is not made
Call(method, a, r) ==
    /\ nops < MaxCalls
    /\ Truthy(data)
    /\ data' = r.doc
    /\ exc' = r.exc
    /\ op' = method
    /\ args' = a
    /\ before' = Snapshot
    /\ nops' = nops + 1
    /\ UNCHANGED structure
    /\ UpdateFrame

\* updater.update_header(**kwargs)
CallUpdateHeader(kwargs) ==
    Call("update_header", kwargs, UpdateHeader(data, kwargs))

\* main with --update-header and the options given: the update it applies;
\* the save_pdf that follows reads the data
MainHeader(options) ==
    Call("main", options, MainUpdateHeader(data, options))

\* updater.update_summary(text)
CallUpdateSummary(text) ==
    Call("update_summary", Str(text), Updated(UpdateSummary(data, text)))

\* updater.add_experience(...)
CallAddExperience(a) ==
    Call("add_experience",
         Arr(<<a.position, a.company, a.location, a.from_month, a.from_year,
               a.to_month, a.to_year, a.is_ongoing, a.bullets>>),
         AddExperience(data, a))

\* updater.update_skills(skill_groups)
CallUpdateSkills(skill_groups) ==
    Call("update_skills", skill_groups, UpdateSkills(data, skill_groups))

\* updater.analyze_structure()
Analyze ==
    /\ nops < MaxCalls
    /\ Truthy(data)
    /\ structure' = AnalyzeStructure(data)
    /\ exc' = NoExc
    /\ op' = "analyze_structure"
    /\ args' = Unset
    /\ before' = Snapshot
    /\ nops' = nops + 1
    /\ UNCHANGED data
    /\ UpdateFrame

InitUpdate ==
    UpdateInit /\ ClassifyIdle /\ DateIdle /\ TextIdle /\ RenderIdle /\ GuiIdle

NextUpdate ==
    \/ \E k \in 1..Len(KwargsPool) : CallUpdateHeader(KwargsPool[k])
    \/ \E k \in 1..Len(KwargsPool) : MainHeader(KwargsPool[k])
    \/ \E t \in 1..Len(TextPool) : CallUpdateSummary(TextPool[t])
    \/ \E a \in 1..Len(ExperiencePool) : CallAddExperience(ExperiencePool[a])
    \/ \E g \in 1..Len(SkillsPool) : CallUpdateSkills(SkillsPool[g])
    \/ Analyze

\* the updates of the document, in any order
SpecUpdate == InitUpdate /\ [][NextUpdate]_vars

----------------------------------------------------------------------------
(***************************************************************************)
(* The window of the customizer: the Customize and Cancel buttons, the     *)
(* worker threads, and the signals the workers emit, which wait in the     *)
(* event queue of the window's thread until a slot takes them.             *)
(***************************************************************************)
\* the workers a behaviour starts
MaxWorkers == 3

\* the workers whose run() has not emitted and that were not terminated
Running == {w \in 1..Len(workers) : workers[w] = "running"}

\* what a step of the window or of a worker leaves alone
GuiFrame ==
    UNCHANGED <<codecVars, classifyVars, dateVars, textVars, renderVars, updateVars>>

\* a click on Customize, the button enabled.  The inputs are "invalid" for
\* validate_inputs, which returns before anything is touched; or they are
\* "refused" after cleaning, and the buttons are set back; or a worker is
\* made, kept in self.worker and "started".
StartCustomization(inputs) ==
    /\ customize_btn
    /\ inputs = "started" => Len(workers) < MaxWorkers
    /\ customize_btn' = (inputs # "started")
    /\ cancel_btn' = IF inputs = "invalid" THEN cancel_btn ELSE inputs = "started"
    /\ workers' = IF inputs = "started" THEN Append(workers, "running") ELSE workers
    /\ worker' = IF inputs = "started" THEN Len(workers) + 1 ELSE worker
    /\ UNCHANGED <<queue, cancelled, saved>>
    /\ GuiFrame

\* CustomizationWorker.run of a worker, in its own thread: it ends by
\* emitting finished, or error from its handler; the signal is queued for
\* the window's thread
Run(signal) ==
    \E w \in Running :
        /\ workers' = [workers EXCEPT ![w] = "returned"]
        /\ queue' = Append(queue, [signal |-> signal, from |-> w])
        /\ UNCHANGED <<worker, customize_btn, cancel_btn, cancelled, saved>>
        /\ GuiFrame

\* a click on Cancel, the button enabled: self.worker is terminated and
\* waited for when it is running, and the buttons are set back
CancelCustomization ==
    /\ cancel_btn
    /\ workers' = IF worker # 0 /\ workers[worker] = "running"
                  THEN [workers EXCEPT ![worker] = "terminated"]
                  ELSE workers
    /\ cancelled' = IF worker # 0 THEN cancelled \cup {worker} ELSE cancelled
    /\ customize_btn' = TRUE
    /\ cancel_btn' = FALSE
    /\ UNCHANGED <<worker, queue, saved>>
    /\ GuiFrame

\* the slot customization_complete takes a finished signal from the queue:
\* the buttons are set back and save_customized_resume is called
CustomizationComplete ==
    /\ queue # <<>>
    /\ Head(queue).signal = "finished"
    /\ queue' = Tail(queue)
    /\ customize_btn' = TRUE
    /\ cancel_btn' = FALSE
    /\ saved' = Append(saved, [from |-> Head(queue).from,
                               cancelled |-> Head(queue).from \in cancelled])
    /\ UNCHANGED <<workers, worker, cancelled>>
    /\ GuiFrame

\* the slot customization_error takes an error signal from the queue
CustomizationError ==
    /\ queue # <<>>
    /\ Head(queue).signal = "error"
    /\ queue' = Tail(queue)
    /\ customize_btn' = TRUE
    /\ cancel_btn' = FALSE
    /\ UNCHANGED <<workers, worker, cancelled, saved>>
    /\ GuiFrame

InitGui ==
    CodecIdle /\ ClassifyIdle /\ DateIdle /\ TextIdle /\ RenderIdle /\ UpdateIdle /\ GuiIdle

NextGui ==
    \/ \E inputs \in {"invalid", "refused", "started"} : StartCustomization(inputs)
    \/ \E signal \in {"finished", "error"} : Run(signal)
    \/ CancelCustomization
    \/ CustomizationComplete
    \/ CustomizationError

\* the window: clicks, workers and slots in any order
SpecGui == InitGui /\ [][NextGui]_vars

----------------------------------------------------------------------------
(***************************************************************************)
(* Properties of the codec.                                                *)
(***************************************************************************)
SaveOp == op \in {"save", "save_as"}

\* the bytes the last save wrote
Written == IF op = "save" THEN file ELSE out

\* the places of the name token in c
TokenPlaces(c) == {p \in 1..Len(c) : LitAt(c, p, NameToken)}

\* whether one of the field patterns matches in c
FieldFound(c) == \E k \in 1..3, p \in 1..Len(c) : MatchAt(k, c, p).ok

\* the text between '<' and the first '>' of the one field of c, <<>> when
\* c has no field or several
FieldText(c) ==
    LET p == Find(c, NameToken, 1)
        a == SkipSpace(c, p + Len(NameToken))
        e == SkipNotGt(c, a)
    IN  IF /\ Cardinality(TokenPlaces(c)) = 1
           /\ a <= Len(c) /\ c[a] = 60 /\ e <= Len(c)
        THEN SubSeq(c, a + 1, e - 1)
        ELSE <<>>

\* the hex digits of a text
DigitsOf(h) == SelectSeq(h, IsHexDigit)

\* C1: round-trip identity: a loaded document D saved into a container that
\* holds a field is what extract_json_data reads from the written bytes.
C1_RoundTrip ==
    (SaveOp /\ data # None /\ FieldFound(before.file))
        => /\ exc = NoExc
           /\ ExtractJson(Written).exc = NoExc
           /\ ExtractJson(Written).doc = data

IsUpperHex(b) == (b >= 48 /\ b <= 57) \/ (b >= 65 /\ b <= 70)

\* the text t is '/ecv-data <' + hex + '>', the hex in chunks of two
\* uppercase digits with one space between two chunks, FE FF first, then
\* the UTF-16BE bytes of the JSON text of d
FieldTextOf(t, d) ==
    LET n == Len(NameToken)
        h == SubSeq(t, n + 3, Len(t) - 1)
    IN  /\ Len(t) >= n + 3
        /\ SubSeq(t, 1, n + 2) = NameToken \o <<32, 60>>
        /\ t[Len(t)] = 62
        /\ Len(h) % 3 = 2
        /\ \A k \in 1..Len(h) :
               IF k % 3 = 0 THEN h[k] = 32 ELSE IsUpperHex(h[k])
        /\ Len(h) >= 5
        /\ SubSeq(h, 1, 5) = <<70, 69, 32, 70, 70>>
        /\ [k \in 1..((Len(h) + 1) \div 3) |->
               16 * DigitValue(h[3 * k - 2]) + DigitValue(h[3 * k - 1])]
           = <<254, 255>> \o Utf16Encode(Dumps(d))

\* C2: a save that succeeds writes the field as '/ecv-data <' + hex + '>',
\* the hex uppercase, in 2-character chunks one space apart, FEFF first,
\* then the UTF-16BE bytes of the JSON.
C2_FieldText ==
    (SaveOp /\ exc = NoExc)
        => \E p \in TokenPlaces(Written) :
               FieldTextOf(SubSeq(Written, p, SkipNotGt(Written, p)), data)

\* a save of the document with an escaped quote and a surrogate pair
C2_Witness == SaveOp /\ exc = NoExc /\ data = DocAstral

\* C3: a save that succeeds replaces one field span (a name token through
\* the first '>' after it) and leaves every other byte as it was.
C3_SingleSpan ==
    (SaveOp /\ exc = NoExc)
        => \E i \in TokenPlaces(before.file) :
               LET j == SkipNotGt(before.file, i)
               IN  /\ j <= Len(before.file)
                   /\ Written = SubSeq(before.file, 1, i - 1)
                                  \o Replacement(data)
                                  \o From(before.file, j + 1)

\* C4: with a document loaded and one field in the file, in any style the
\* patterns know, a save into the file succeeds, the file holds one field
\* and extract_json_data reads the saved document from it.
C4_AnyStyle ==
    (/\ op = "save"
     /\ data # None
     /\ Cardinality(TokenPlaces(before.file)) = 1
     /\ FieldFound(before.file))
        => /\ exc = NoExc
           /\ Cardinality(TokenPlaces(file)) = 1
           /\ ExtractJson(file) = [exc |-> NoExc, doc |-> data]

\* whether the text h is hex digits and whitespace only, its digits FEFF
\* and then the payload of a document that decodes
IsSpacedField(h) ==
    /\ \A k \in 1..Len(h) : IsHexDigit(h[k]) \/ IsSpace(h[k])
    /\ Len(DigitsOf(h)) >= 4
    /\ SubSeq(DigitsOf(h), 1, 4) = BomDigits
    /\ DecodeField(From(DigitsOf(h), 5)).exc = NoExc

IsToleratedField(h) ==
    LET b == SkipSpace(h, 3)
        rest == From(h, b + 2)
    IN  /\ IsSpacedField(h)
        /\ LitAt(h, 1, <<70, 69>>)
        /\ LitAt(h, b, <<70, 70>>)
        /\ \A k \in 1..Len(rest) :
               (IsSpace(rest[k]) /\ rest[k] \notin {32, 10, 13})
                   => Len(DigitsOf(SubSeq(rest, 1, k))) % 2 = 0

NotFoundExc ==
    Raise("RuntimeError", <<"Error extracting data from PDF",
                            "Could not find /ecv-data field in PDF">>)

\* the stage of the decode of the first match of c that fails: "hex",
\* "utf16", "json", or "none"
FailingStage(c) ==
    LET m == FirstMatch(c)
        b == FromHex(HexStr(HexClean(SubSeq(c, m.gs, m.ge))))
    IN  IF ~b.ok THEN "hex"
        ELSE IF ~Utf16Decode(b.bytes).ok THEN "utf16"
        ELSE IF ~Loads(Utf16Decode(b.bytes).cps).ok THEN "json"
        ELSE "none"

\* the text that names the cause of a failing stage
CauseText(stage) ==
    CASE stage = "hex" -> "non-hexadecimal number found in fromhex() arg"
      [] stage = "utf16" -> "UnicodeDecodeError"
      [] stage = "json" -> "JSONDecodeError"
      [] OTHER -> ""

\* C6: extract_json_data ends with the missing-field error exactly when no
\* pattern matches, with another error that names its cause when the hex,
\* the UTF-16 or the JSON decode fails, and a failure leaves self.data as
\* it was.
C6_Errors ==
    op = "extract" =>
        /\ (exc = NotFoundExc) <=> ~FieldFound(before.file)
        /\ (FieldFound(before.file) /\ FailingStage(before.file) # "none")
              => /\ exc.type = "RuntimeError"
                 /\ exc # NotFoundExc
                 /\ exc.msg[Len(exc.msg)] = CauseText(FailingStage(before.file))
        /\ (FieldFound(before.file) /\ FailingStage(before.file) = "none")
              => exc = NoExc
        /\ exc # NoExc => data = before.data

\* a decode failure on an updater that holds a document
C6_Witness ==
    /\ op = "extract"
    /\ FieldFound(before.file)
    /\ exc # NoExc
    /\ before.data # None
    /\ data = before.data

\* C7: a matched field text with a byte that is neither a hex digit nor
\* whitespace, or with an odd number of hex digits, makes extract_json_data
\* fail.
C7_NoSilentDrop ==
    (/\ op = "extract"
     /\ FirstMatch(before.file).ok
     /\ LET m == FirstMatch(before.file)
            g == SubSeq(before.file, m.gs, m.ge)
        IN  \/ \E k \in 1..Len(g) : ~IsHexDigit(g[k]) /\ ~IsSpace(g[k])
            \/ Len(DigitsOf(g)) % 2 = 1)
        => exc # NoExc

\* whether pattern 1 or 2, the patterns of save_pdf, matches in c
SavePatternFound(c) == \E k \in 1..2, p \in 1..Len(c) : MatchAt(k, c, p).ok

\* the first '>' at or after the first name token of c, 0 when none
FirstGtAfterToken(c) ==
    LET p == Least(TokenPlaces(c))
        gts == {e \in p..Len(c) : c[e] = 62}
    IN  IF gts = {} THEN 0 ELSE Least(gts)

\* C8: when no pattern matches, a save replaces the span from the first
\* name token through the first '>' after it; without the token, without
\* a '>' after it (the error of the missing end) or without a document the
\* save fails; and a save that fails writes nothing.
C8_Fallback ==
    SaveOp =>
        LET c == before.file
        IN  /\ (Truthy(data) /\ ~SavePatternFound(c) /\ TokenPlaces(c) # {}
                  /\ FirstGtAfterToken(c) # 0)
                  => /\ exc = NoExc
                     /\ Written = SubSeq(c, 1, Least(TokenPlaces(c)) - 1)
                                    \o Replacement(data)
                                    \o From(c, FirstGtAfterToken(c) + 1)
            /\ (Truthy(data) /\ TokenPlaces(c) = {}) => exc # NoExc
            /\ (Truthy(data) /\ ~SavePatternFound(c) /\ TokenPlaces(c) # {}
                  /\ FirstGtAfterToken(c) = 0)
                  => /\ exc.type = "RuntimeError"
                     /\ exc.msg[Len(exc.msg)] = "Could not find end of /ecv-data field"
            /\ data = None => exc # NoExc
            /\ exc # NoExc => (file = before.file /\ out = before.out)

\* a save through the fallback: the field of the file has no BOM
C8_Witness ==
    /\ SaveOp
    /\ exc = NoExc
    /\ ~SavePatternFound(before.file)
    /\ before.file = FilePool[15]

----------------------------------------------------------------------------
(***************************************************************************)
(* Properties of the classifier.                                           *)
(***************************************************************************)
\* the type tag the section carries, '' when it carries none
TagOf(sec) == Get(sec, KeyT, Str(<<>>))

Recognized(sec) == TagOf(sec) \in Known

\* the item carries a text that is not empty
CarriesText(item) ==
    Has(item, KeyText) /\ Get(item, KeyText, None) \notin {None, Str(<<>>)}

\* the item carries a text with a character that is no whitespace
CarriesNonBlankText(item) ==
    /\ CarriesText(item)
    /\ LET v == Get(item, KeyText, None)
       IN  v[1] = "str" => \E n \in 1..Len(v[2]) : ~IsPyWhite(v[2][n])

\* the item names a role or a company
CarriesRole(item) ==
    \E k \in {KeyPosition, KeyTitle, KeyWorkplace, KeyCompany} : Has(item, k)

\* the item carries a list of tags
CarriesTagList(item) == Has(item, KeyTags) /\ Get(item, KeyTags, None)[1] = "arr"

\* the item carries a title that is not empty or some content
CarriesProject(item) ==
    \/ \E k \in {KeyTitle, KeyName, KeyProjectName} :
           Has(item, k) /\ Truthy(Get(item, k, None))
    \/ \E k \in {KeyDescription, KeyText, KeyBullets} :
           Has(item, k) /\ Get(item, k, None) # None

\* some item of the section satisfies P
SomeItem(sec, P(_)) == \E n \in 1..Len(ItemsOf(sec)) : P(ItemsOf(sec)[n])

CarriesPositionAndTags(item) ==
    Has(item, KeyPosition) /\ CarriesTagList(item) /\ ~Has(item, KeyText)

----------------------------------------------------------------------------
(***************************************************************************)
(* Properties of the date formatting.                                      *)
(***************************************************************************)
\* the text t ends with the text e
EndsWith(t, e) ==
    Len(t) >= Len(e) /\ SubSeq(t, Len(t) - Len(e) + 1, Len(t)) = e

\* C10: for a date range with isOngoing = true the call returns a text that
\* ends with "Present", whatever toMonth and toYear hold.
C10_OngoingPresent ==
    (formatted # NotFormatted /\ Get(dateRange, KeyIsOngoing, PyFalse) = PyTrue)
        => /\ formatted.exc = "none"
           /\ EndsWith(formatted.text, PresentText)

\* a key that is absent or null
Missing(d, k) == Get(d, k, None) = None

\* a key that holds a number from lo on
Holds(d, k, lo) ==
    LET v == Get(d, k, None) IN v[1] = "int" /\ v[2][1] >= lo

\* the two digits of a month, and month/year
TwoDigits(n) == <<48 + (n \div 10), 48 + (n % 10)>>

MonthSlashYear(d, km, ky) ==
    TwoDigits(Get(d, km, None)[2][1]) \o <<47>> \o DecDigits(Get(d, ky, None)[2][1])

NotOngoing(d) == Get(d, KeyIsOngoing, PyFalse) = PyFalse

HasStart(d) == Holds(d, KeyFromMonth, 1) /\ Holds(d, KeyFromYear, 1)

\* C11: a range that is not ongoing is formatted as "MM/YYYY - MM/YYYY"
\* when it holds a start and an end month and year, as "MM/YYYY - YYYY"
\* when the end holds only a year, as "MM/YYYY" when it holds only a start,
\* and as the empty string when it holds neither, is empty or is missing.
C11_Format ==
    (formatted # NotFormatted /\ NotOngoing(dateRange)) =>
        LET d == dateRange
            start == MonthSlashYear(d, KeyFromMonth, KeyFromYear)
        IN  /\ (HasStart(d) /\ Holds(d, KeyToMonth, 1) /\ Holds(d, KeyToYear, 1))
                 => formatted = Returned(start \o <<32, 45, 32>>
                                  \o MonthSlashYear(d, KeyToMonth, KeyToYear))
            /\ (HasStart(d) /\ Missing(d, KeyToMonth) /\ Holds(d, KeyToYear, 1))
                 => formatted = Returned(start \o <<32, 45, 32>>
                                  \o DecDigits(Get(d, KeyToYear, None)[2][1]))
            /\ (HasStart(d) /\ Missing(d, KeyToMonth) /\ Missing(d, KeyToYear))
                 => formatted = Returned(start)
            /\ (Missing(d, KeyFromMonth) /\ Missing(d, KeyFromYear)
                  /\ Missing(d, KeyToMonth) /\ Missing(d, KeyToYear))
                 => formatted = Returned(<<>>)

\* C11: the range {fromMonth 3, fromYear 2019, toYear 2021} has been
\* formatted as "03/2019 - 2021".
C11_Witness ==
    /\ dateRange = MkRange(Num(3), Num(2019), Absent, Num(2021), Absent)
    /\ formatted = Returned(<<48, 51, 47, 50, 48, 49, 57, 32, 45, 32, 50, 48, 50, 49>>)

----------------------------------------------------------------------------
(***************************************************************************)
(* Properties of the text functions.                                       *)
(***************************************************************************)
\* C12: clean_html_text applied to its own result returns that result.
C12_Idempotent ==
    (textFn = "clean" /\ Len(passes) = MaxPasses) => passes[2] = passes[1]

\* C13: _normalize_display_title and _normalize_paragraph applied to their
\* own result return that result, also for stacked markers.
C13_Idempotent ==
    (textFn \in {"title", "paragraph"} /\ Len(passes) = MaxPasses)
        => passes[2] = passes[1]

\* the line equals the name, equals it but for case, starts with it or
\* contains it
NamesProject(line, pn) ==
    \/ line = pn
    \/ Lower(line) = Lower(pn)
    \/ LitAt(line, 1, pn)
    \/ Contains(line, pn)

\* C14: the first line of the normalized description is dropped exactly
\* when it names the project, and then the remaining lines are returned;
\* when it does not, or the project name is empty, the normalized
\* description is returned whole.
C14_DropFirstLine ==
    (textFn = "project" /\ passes # <<>>) =>
        LET s == NormalizeParagraph(raw)
            pn == Strip(projName)
            lines == SplitLines(s)
        IN  IF s = <<>> THEN passes[1] = <<>>
            ELSE IF pn # <<>> /\ NamesProject(lines[1], pn)
            THEN passes[1] = Strip(Join(<<10>>, Tail(lines)))
            ELSE passes[1] = s

(***************************************************************************)
(* The renderer.                                                           *)
(***************************************************************************)
\* what the backend b gives for the data d
BackendOutput(b, d) ==
    IF b = "weasyprint" THEN GenerateHtml(d) ELSE RenderWithReportlab(d)

\* the section carries enabled = false
IsDisabled(sec) == Get(sec, KeyEnabled, PyTrue) = PyFalse

\* d without the sections that carry enabled = false
WithoutDisabled(d) ==
    WithSections(d, SelectSeq(SectionsOf(d), LAMBDA sec : ~IsDisabled(sec)))

\* the renders that reached a backend
Rendered == {n \in 1..Len(renders) : renders[n].backend \in {"weasyprint", "reportlab"}}

\* C15: a section whose enabled flag is false contributes nothing to the
\* output of either backend, whatever its tag and items: every render ends
\* as the render of the document without its disabled sections does; and
\* the section stays in the renderer's document.
C15_DisabledSkipped ==
    self_data # "none" =>
        /\ RendererData = atConstruct
        /\ \A n \in Rendered :
              LET o == BackendOutput(renders[n].backend, WithoutDisabled(RendererData))
              IN  renders[n].exc = o.exc /\ renders[n].lines = o.lines

\* C15: both backends have rendered a document that holds a disabled section
\* with items beside an enabled one, and the section is still in the document
C15_Witness ==
    /\ self_data # "none"
    /\ \E k \in 1..Len(SectionsOf(RendererData)) :
          /\ IsDisabled(SectionsOf(RendererData)[k])
          /\ ItemsOf(SectionsOf(RendererData)[k]) # <<>>
    /\ \E k \in 1..Len(SectionsOf(RendererData)) : ~IsDisabled(SectionsOf(RendererData)[k])
    /\ \E i, j \in Rendered :
          /\ renders[i].backend = "weasyprint" /\ renders[i].exc = "none"
          /\ renders[j].backend = "reportlab" /\ renders[j].exc = "none"
          /\ renders[i].lines # <<>> /\ renders[j].lines # <<>>

\* C16: the two backends give the same ordered sequence of lines (header
\* lines, section headings, item lines with the parts they join, bullets)
\* for the same document, and end the same way.
C16_Equivalent ==
    \A i, j \in Rendered :
        (renders[i].backend = "weasyprint" /\ renders[j].backend = "reportlab")
            => /\ renders[i].exc = renders[j].exc
               /\ renders[i].lines = renders[j].lines

\* the Experience item {position Engineer, workplace Acme, bullets
\* [Shipped X], dateRange {fromMonth 1, fromYear 2020, isOngoing true}}
ExampleItem == ItemsOf(RenderPool[2])[1]

\* "Engineer"
TextEngineer == <<69, 110, 103, 105, 110, 101, 101, 114>>

\* "01/2020 - Present"
TextSincePresent == <<48, 49, 47, 50, 48, 50, 48, 32, 45, 32, 80, 114, 101, 115, 101, 110, 116>>

\* "Shipped X"
TextShipped == <<83, 104, 105, 112, 112, 101, 100, 32, 88>>

\* d holds the example item in an enabled section tagged ExperienceSection
HoldsExample(d) ==
    \E k \in 1..Len(SectionsOf(d)) :
        LET sec == SectionsOf(d)[k]
        IN  /\ IsEnabled(sec)
            /\ Get(sec, KeyT, None) = ExperienceSection
            /\ \E n \in 1..Len(ItemsOf(sec)) : ItemsOf(sec)[n] = ExampleItem

\* some part of the line contains the text t
LineContains(line, t) == \E p \in 1..Len(line.parts) : Contains(line.parts[p], t)

\* C17: a completed render, by either backend, of a document that holds the
\* example item in an enabled Experience section contains, in this order,
\* the role line "Engineer", one line that contains both "Acme" and
\* "01/2020 - Present", and a bullet line that contains "Shipped X".
C17_ExperienceLines ==
    \A n \in Rendered :
        (self_data # "none" /\ renders[n].exc = "none" /\ HoldsExample(RendererData))
            => \E a, b, c \in 1..Len(renders[n].lines) :
                  /\ a < b /\ b < c
                  /\ renders[n].lines[a].parts = <<TextEngineer>>
                  /\ LineContains(renders[n].lines[b], TextAcme[2])
                  /\ LineContains(renders[n].lines[b], TextSincePresent)
                  /\ renders[n].lines[c].kind = "bullet"
                  /\ LineContains(renders[n].lines[c], TextShipped)

\* neither library can be imported
NoBackend == ~env.weasyprint /\ ~env.reportlab

\* the backend the method 'auto' is to choose in the environment
Preferred ==
    IF env.frozen /\ env.reportlab THEN "reportlab"
    ELSE IF env.weasyprint THEN "weasyprint"
    ELSE "reportlab"

\* C18: with the method 'auto' render_pdf goes to the fixed-layout backend
\* when the program runs packaged and that backend is available, otherwise
\* to the flow backend when it is available, otherwise to the fixed-layout
\* backend; when neither library can be imported the rendering fails with
\* the ImportError of render_pdf and gives no output; an unknown method is
\* rejected with no output.
C18_Selection ==
    \A n \in 1..Len(renders) :
        LET r == renders[n]
        IN  /\ (NoBackend /\ r.method # "bogus")
                  => (r.step = "render" /\ r.exc = "ImportError" /\ r.lines = <<>>)
            /\ ~NoBackend => r.step # "import"
            /\ (~NoBackend /\ r.method = "auto") => r.backend = Preferred
            /\ r.method = "bogus"
                  => (r.exc = "ValueError" /\ r.backend = "none" /\ r.lines = <<>>)

\* the value is a list that holds an element that is no string
HoldsNonString(v) == v[1] = "arr" /\ \E n \in 1..Len(v[2]) : v[2][n][1] # "str"

\* the value is there and is neither a number nor null
IsNoNumber(v) == v # Absent /\ v[1] \notin {"int", "null"}

\* the item is malformed: no record, or a month that is no number, or a tag
\* or a bullet that is no string
Malformed(item) ==
    \/ item[1] # "obj"
    \/ /\ item[1] = "obj"
       /\ \/ HoldsNonString(Get(item, KeyTags, None))
          \/ HoldsNonString(Get(item, KeyBullets, None))
          \/ LET dr == Get(item, KeyDateRange, None)
             IN  /\ dr[1] = "obj"
                 /\ \/ IsNoNumber(Get(dr, KeyFromMonth, Absent))
                    \/ IsNoNumber(Get(dr, KeyToMonth, Absent))

\* the section without its malformed items
SoundItems(sec) ==
    IF sec[1] = "obj" /\ Has(sec, KeyItems) /\ Get(sec, KeyItems, None)[1] = "arr"
    THEN Obj(DictPut(sec[2], KeyItems,
                     Arr(SelectSeq(ItemsOf(sec), LAMBDA item : ~Malformed(item)))))
    ELSE sec

\* d without the malformed items of its sections
WithoutMalformed(d) ==
    WithSections(d, [k \in 1..Len(SectionsOf(d)) |-> SoundItems(SectionsOf(d)[k])])

\* C19: a render does not abort, and it gives what the document without its
\* malformed items gives: a malformed item is skipped, every other item and
\* section is rendered.
C19_Degrades ==
    \A n \in Rendered :
        self_data # "none" =>
            /\ renders[n].exc = "none"
            /\ renders[n].lines =
                   BackendOutput(renders[n].backend, WithoutMalformed(RendererData)).lines

\* C20: the renderer works on its own copy. Constructing a renderer and
\* rendering leave the caller's document as it was; the updates the caller
\* makes afterwards do not reach the renderer's data, so every render gives
\* what the document at the construction gives; and two renders by the same
\* backend give the same output.
C20_Isolation ==
    self_data # "none" =>
        /\ mutations = 0 => heap.caller = atConstruct
        /\ RendererData = atConstruct
        /\ \A n \in Rendered :
              LET o == BackendOutput(renders[n].backend, atConstruct)
              IN  renders[n].exc = o.exc /\ renders[n].lines = o.lines
        /\ \A i, j \in Rendered :
              renders[i].backend = renders[j].backend
                  => (renders[i].exc = renders[j].exc /\ renders[i].lines = renders[j].lines)

\* C20: the same backend has rendered before and after the caller replaced
\* the summary of its document, which shows in the output
C20_Witness ==
    /\ self_data # "none"
    /\ heap.caller # atConstruct
    /\ BackendOutput("reportlab", heap.caller) # BackendOutput("reportlab", atConstruct)
    /\ \E i, j \in Rendered :
          /\ i < j
          /\ renders[i].backend = renders[j].backend
          /\ renders[i].at = 0 /\ renders[j].at > 0
          /\ renders[j].exc = "none" /\ renders[j].lines # <<>>

(***************************************************************************)
(* The classifier, the dates and the normalizers again.                    *)
(***************************************************************************)
\* the item carries the key tags with an empty list, and no other key
OnlyEmptyTags(item) == item = Obj(<< <<KeyTags, Arr(<<>>)>> >>)

\* C23: a section without a recognized tag whose items carry only an empty
\* list of tags does not resolve to Technology.
C23_NonEmptyTags ==
    (/\ resolved # Unset
     /\ ~Recognized(section)
     /\ ItemsOf(section) # <<>>
     /\ \A n \in 1..Len(ItemsOf(section)) : OnlyEmptyTags(ItemsOf(section)[n]))
        => resolved # TechnologySection

\* the value is a whole number
IsInt(v) == v[1] = "int"

\* the text a month m is to be written as: the entry of the table for 1..12,
\* the number padded to two characters for any other
MonthLabel(m) == IF m \in 1..12 THEN TwoDigits(m) ELSE ZFill(IntStr(m), 2)

\* C25: for a start month that is a whole number other than 0, beside a
\* start year, the call does not raise and the text starts with the entry
\* of the table for a month in 1..12 and with the number padded with zeros
\* for a month above 12 or below 0, never with the entry of another month.
C25_MonthLabel ==
    (/\ formatted # NotFormatted
     /\ dateRange # None
     /\ IsInt(Get(dateRange, KeyFromMonth, None))
     /\ Get(dateRange, KeyFromMonth, None) # Num(0)
     /\ Holds(dateRange, KeyFromYear, 1)
     /\ Get(dateRange, KeyToMonth, None) \in {None, Num(6)})
        => /\ formatted.exc = "none"
           /\ LitAt(formatted.text, 1,
                    MonthLabel(Get(dateRange, KeyFromMonth, None)[2][1]) \o <<47>>)

\* the text starts with one character, whitespace and then a character
\* that satisfies P
LeadThen(t, P(_)) ==
    /\ Len(t) >= 3
    /\ IsPyWhite(t[2])
    /\ SkipWhite(t, 2) <= Len(t)
    /\ P(t[SkipWhite(t, 2)])

\* the markers at the start of the text, removed as both normalizers do
Unmarked(t) == StripBullet(StripOrdinal(Strip(t)))

\* C26: the prefix of one character and whitespace is removed only before
\* an uppercase character. A text that starts with a character, whitespace
\* and a character that is not uppercase is returned by both normalizers
\* with its first character; _normalize_display_title removes the prefix
\* once; what _normalize_paragraph returns starts with no such prefix.
C26_LeadingCharacter ==
    (textFn \in {"title", "paragraph"} /\ passes # <<>>) =>
        LET s == Unmarked(raw)
        IN  /\ (s # <<>> /\ LeadThen(s, LAMBDA c : ~IsUpperChar(c)))
                  => passes[1] = Strip(s)
            /\ (textFn = "title" /\ LeadThen(s, IsUpperChar))
                  => passes[1] = Strip(From(s, SkipWhite(s, 2)))
            /\ textFn = "paragraph" => ~LeadThen(passes[1], IsAsciiUpper)

RECURSIVE Strings(_)
\* the strings a value of the document holds, at any depth
Strings(v) ==
    CASE v[1] = "str" -> {v[2]}
      [] v[1] = "arr" -> UNION {Strings(v[2][n]) : n \in 1..Len(v[2])}
      [] v[1] = "obj" -> UNION {Strings(v[2][n][2]) : n \in 1..Len(v[2])}
      [] OTHER -> {}

\* the label of a section of no known kind: its name, or "Other" when the
\* name is absent or empty
OtherLabel(sec) ==
    LET name == Get(sec, KeyName, None)
    IN  IF name[1] = "str" /\ name[2] # <<>> THEN name[2] ELSE OtherType[2]

\* the section has no recognized tag and matches no shape
IsOther(sec) ==
    /\ ~Recognized(sec)
    /\ \A n \in 1..Len(ItemsOf(sec)) : ItemsOf(sec)[n][1] = "obj"
    /\ ResolveSectionType(sec) \notin Known

\* the headings of the lines
Headings(lines) == {lines[n].parts : n \in {m \in 1..Len(lines) : lines[m].kind = "heading"}}

\* C24: in a completed render of either backend an enabled section with no
\* recognized tag and no matching shape has a heading, which is the name of
\* the section, or "Other" when the name is absent or empty, in capitals as
\* every heading; an unrecognized tag is not the heading.
C24_OtherHeading ==
    \A n \in Rendered :
        (self_data # "none" /\ renders[n].exc = "none") =>
            \A k \in 1..Len(SectionsOf(RendererData)) :
                LET sec == SectionsOf(RendererData)[k]
                IN  (IsEnabled(sec) /\ IsOther(sec))
                        => <<Upper(OtherLabel(sec))>> \in Headings(renders[n].lines)

\* C27: a completed render adds no text for a field the document does not
\* hold: the link prefix "linkedin.com/in/" and the maximum "5.0" of a GPA
\* are in a line of the output only when a string of the document holds them.
C27_NoFabrication ==
    \A n \in Rendered :
        (self_data # "none" /\ renders[n].exc = "none") =>
            \A t \in {LinkedInPrefix, DefaultMaxGpa} :
                (\E k \in 1..Len(renders[n].lines) : LineContains(renders[n].lines[k], t))
                    => \E u \in Strings(RendererData) : Contains(u, t)

----------------------------------------------------------------------------
(***************************************************************************)
(* Properties of the updates.                                              *)
(***************************************************************************)
\* C22: the enabled flag defaults to true: a section of the document that
\* has no enabled key is read as enabled by the renderer and is reported as
\* enabled by analyze_structure.
C22_EnabledDefault ==
    op = "analyze_structure" =>
        \A n \in 1..Len(SectionsOf(data)) :
            ~Has(SectionsOf(data)[n], KeyEnabled) =>
                /\ IsEnabled(SectionsOf(data)[n])
                /\ Get(Get(structure, KeySections, None)[2][n], KeyEnabled, None) = PyTrue

\* C28: a header update touches only the fields that were supplied: after
\* update_header, called directly or by main for --update-header, every one
\* of the six header fields that was not supplied is in the header exactly
\* when it was before, with the value it had, and the sections are the same.
C28_HeaderFrame ==
    op \in {"update_header", "main"} =>
        /\ \A n \in 1..Len(HeaderFields) :
               ~Has(args, HeaderFields[n]) =>
                   /\ Has(HeaderOf(data), HeaderFields[n])
                          = Has(HeaderOf(before.data), HeaderFields[n])
                   /\ Get(HeaderOf(data), HeaderFields[n], None)
                          = Get(HeaderOf(before.data), HeaderFields[n], None)
        /\ Get(data, KeySections, None) = Get(before.data, KeySections, None)

\* the sections of the document d that _resolve_section_type resolves to
\* Summary
Summaries(d) ==
    {n \in 1..Len(SectionsOf(d)) : ResolveSectionType(SectionsOf(d)[n]) = SummarySection}

\* the texts of the items of the sections of d that resolve to Summary
SummaryTexts(d) ==
    UNION {{Get(ItemsOf(SectionsOf(d)[n])[k], KeyText, Str(<<>>))[2] :
               k \in 1..Len(ItemsOf(SectionsOf(d)[n]))} : n \in Summaries(d)}

\* C29: update_summary agrees with the classifier: after update_summary(t)
\* one section resolves to Summary, or as many as did before when several
\* did; a second update_summary(t) changes nothing; and when one section
\* resolved to Summary before and it is enabled, both backends show t and
\* neither shows the text that section held before.
C29_SummaryAgrees ==
    op = "update_summary" =>
        LET t == args[2]
            d0 == before.data
            gone == {u \in SummaryTexts(d0) : u # <<>> /\ ~Contains(t, u)}
        IN  /\ Cardinality(Summaries(data))
                   = (IF Cardinality(Summaries(d0)) > 1
                      THEN Cardinality(Summaries(d0)) ELSE 1)
            /\ UpdateSummary(data, t) = data
            /\ (/\ Cardinality(Summaries(d0)) = 1
                /\ \A n \in Summaries(d0) : IsEnabled(SectionsOf(d0)[n]))
                   => \A b \in {"reportlab", "weasyprint"} :
                          LET lines == BackendOutput(b, data).lines
                          IN  /\ \E n \in 1..Len(lines) : LineContains(lines[n], t)
                              /\ \A u \in gone : \A n \in 1..Len(lines) :
                                     ~LineContains(lines[n], u)

\* the members of the object v whose key is not in keys, in their order
Without(v, keys) == SelectSeq(v[2], LAMBDA p : p[1] \notin keys)

\* the sequence a is the start of the sequence b
IsPrefix(a, b) == Len(a) <= Len(b) /\ SubSeq(b, 1, Len(a)) = a

\* what may differ between the items was of a section an update looks for
\* by the tag t and its items now: the text of the first item, or all items
\* when there was none, for a summary; items added at the end for an
\* experience section; every item for a skills section
ItemsKept(t, was, now) ==
    CASE t = SummarySection ->
             \/ was = <<>>
             \/ /\ Len(now) = Len(was)
                /\ Without(now[1], {KeyText}) = Without(was[1], {KeyText})
                /\ SubSeq(now, 2, Len(now)) = SubSeq(was, 2, Len(was))
      [] t = ExperienceSection -> IsPrefix(was, now)
      [] OTHER -> TRUE

\* the section was, the n-th of the sections ss0, is kept as the section
\* now: it is the same, or it is the first section with its tag, the tag is
\* one an update looks for, and it differs in its items only, as ItemsKept
\* allows
SectionKept(ss0, n, now) ==
    LET was == ss0[n]
        t == Get(was, KeyT, None)
    IN  \/ now = was
        \/ /\ t \in {SummarySection, ExperienceSection, TechnologySection}
           /\ n = FirstTagged(ss0, t)
           /\ Without(now, {KeyItems}) = Without(was, {KeyItems})
           /\ ItemsKept(t, ItemsOf(was), ItemsOf(now))

RECURSIVE KeptInOrder(_, _, _, _)
\* the sections of ss0 from the i-th on are kept, in their order, among
\* the sections of ss1 from the j-th on
KeptInOrder(ss0, ss1, i, j) ==
    IF i > Len(ss0) THEN TRUE
    ELSE IF j > Len(ss1) THEN FALSE
    ELSE IF SectionKept(ss0, i, ss1[j]) THEN KeptInOrder(ss0, ss1, i + 1, j + 1)
    ELSE KeptInOrder(ss0, ss1, i, j + 1)

\* C21: after any sequence of update_header, update_summary, add_experience
\* and update_skills calls, every section the document had at first is still
\* there, these sections are in their first order, and all that no update
\* names is as it was: the sections other than the first one of each
\* updated tag, disabled ones included, every field of an updated section
\* other than its items, the items of an experience section that were
\* there, the fields of the first summary item other than its text, the
\* header fields other than the six of update_header, and the top-level
\* members other than the header and the sections.
C21_Frame ==
    /\ KeptInOrder(SectionsOf(loaded), SectionsOf(data), 1, 1)
    /\ Without(HeaderOf(data), {HeaderFields[n] : n \in 1..Len(HeaderFields)})
           = Without(HeaderOf(loaded), {HeaderFields[n] : n \in 1..Len(HeaderFields)})
    /\ Without(data, {KeyHeader, KeySections}) = Without(loaded, {KeyHeader, KeySections})

\* C21 witness: the document with two disabled sections and fields no
\* update names, after an update followed by update_skills, both of which
\* changed it.
C21_Witness ==
    /\ loaded = UpdatePool[1]
    /\ nops >= 2
    /\ op = "update_skills"
    /\ before.data # loaded
    /\ data # before.data

----------------------------------------------------------------------------
(***************************************************************************)
(* Properties of the window.                                               *)
(***************************************************************************)
\* C30: cancelling is final and runs do not overlap: in every state, at
\* most one worker is running, the Customize button is enabled only while
\* no worker is running, and no call of save_customized_resume was made by
\* customization_complete for a worker cancel_customization had run for.
C30_CancelFinal ==
    /\ Cardinality(Running) <= 1
    /\ customize_btn => Running = {}
    /\ \A n \in 1..Len(saved) : ~saved[n].cancelled

====
